---- MODULE Spec2Model ----
\* gointercept: the handler adapter (This / newHandler) and the interceptor
\* chain engine (With / Interceptor.handle / processError) of handler.go.
EXTENDS Integers, Sequences, FiniteSets, TLC

\* ------------------------------------------------------------------ bounds
\* Longest interceptor list handed to With.
MaxLayers == 3
\* Largest number of parameters, and of return values, of an application function.
MaxArity == 3

\* ------------------------------------------------------------------ values
\* The nil error / the nil interface value.
Nil == "nil"
\* The payload the caller sends.
Request == "request"
\* The engine never inspects a payload or an error beyond err != nil, so every
\* collaborator call returns a payload of its own, and either nil or an error of
\* its own: whatever reaches a later call is then known by where it came from.
ValueOf(phase, id) == "v:" \o phase \o ToString(id)
ErrorOf(phase, id) == "e:" \o phase \o ToString(id)
\* What the application function can return in a value and in an error position.
AppValues == {Nil, "v:app"}
AppErrors == {Nil, "e:app"}
\* The context.Context the caller passes.
Ctx == "ctx"

\* Errors built by newHandler, validateArguments and validateReturns (fmt.Errorf).
HandlerIsNil == "handler is nil"
InvalidHandlerKind == "handler kind is not func"
TooManyArguments == "handlers may not take more than two arguments"
InvalidFirstArgument == "handler takes two arguments, but the first is not Context"
TooManyReturnValues == "handler may not return more than two values"
InvalidSecondReturn == "handler returns two values, but the second does not implement error"
InvalidSingleReturn == "handler returns a single value, but it does not implement error"
\* Errors of the payload codec inside the adapted handler.
EncodeError == "json: encode error"
DecodeError == "json: unmarshal error"
CodecErrors == {EncodeError, DecodeError}

\* ------------------------------------------------------------------ state
VARIABLES
    handlerFunc,  \* the application function given to This (its reflected shape)
    core,         \* InterceptedHandler.handler: the LambdaHandler newHandler built
    handler,      \* the LambdaHandler With returned: the layers, outermost first
    pc,           \* where the invocation stands
    depth,        \* the layer whose frame is executing (0 caller, Len(handler)+1 core)
    response,     \* the value being passed or returned
    err,          \* the error being passed or returned
    trace,        \* the collaborator calls of this invocation, in order
    returned,     \* per layer, the (value, error) pair it returned in this invocation
    calls,        \* the argument lists the application function was called with
    parked,       \* the frames of the caller's other invocation, while this one runs
    input,        \* per ParseInput interceptor, the Input its `input` pointer refers to
    ctx           \* the context.Context the caller invokes the chain with

vars == <<handlerFunc, core, handler, pc, depth, response, err, trace, returned, calls, parked,
          input, ctx>>

\* Mutant of ContextAt: a layer hands a new context to its inner handler.
ContextAtBackground(d) == IF d > 1 THEN "context.Background()" ELSE ctx

\* The ctx of the frame of layer d (the core's, under the last layer): each
\* closure passes the ctx it was called with to its phases and inward.
ContextAt(d) == ctx

\* ------------------------------------------------------------------ adapter
RECURSIVE BoolSeqs(_)
BoolSeqs(n) ==
    IF n = 0 THEN {<<>>}
    ELSE LET shorter == BoolSeqs(n - 1)
         IN shorter \cup {Append(s, b) : s \in {t \in shorter : Len(t) = n - 1}, b \in BOOLEAN}

\* reflect.Type of a func: per parameter whether it implements context.Context,
\* per return value whether it implements error.
FuncTypes == [kind : {"func"}, in : BoolSeqs(MaxArity), out : BoolSeqs(MaxArity)]
\* Everything This can be given: nil, a value that is no func, a func.
HandlerFuncs == {[kind |-> "nil"], [kind |-> "notfunc"]} \cup FuncTypes

NumIn(t) == Len(t.in)
NumOut(t) == Len(t.out)

\* func simpleFunction(context.Context, Input) (*Output, error)
simpleFunction == [kind |-> "func", in |-> <<TRUE, FALSE>>, out |-> <<FALSE, TRUE>>]

\* Mutant of validateArguments: the limit on the parameters is off by one.
validateArgumentsOffByOne(t) ==
    IF NumIn(t) > 3 THEN <<FALSE, TooManyArguments>>
    ELSE IF NumIn(t) > 0
         THEN LET handlerTakesContext == t.in[1]
              IN IF NumIn(t) > 1 /\ ~handlerTakesContext
                 THEN <<FALSE, InvalidFirstArgument>>
                 ELSE <<handlerTakesContext, Nil>>
         ELSE <<FALSE, Nil>>

\* Mutant of validateArguments: wants a Context first whenever there is a parameter.
validateArgumentsContextFirst(t) ==
    IF NumIn(t) > 2 THEN <<FALSE, TooManyArguments>>
    ELSE IF NumIn(t) > 0
         THEN IF ~t.in[1] THEN <<FALSE, InvalidFirstArgument>> ELSE <<TRUE, Nil>>
         ELSE <<FALSE, Nil>>

\* validateArguments: <<handlerTakesContext, err>>
validateArguments(t) ==
    IF NumIn(t) > 2 THEN <<FALSE, TooManyArguments>>
    ELSE IF NumIn(t) > 0
         THEN LET handlerTakesContext == t.in[1]
              IN IF NumIn(t) > 1 /\ ~handlerTakesContext
                 THEN <<FALSE, InvalidFirstArgument>>
                 ELSE <<handlerTakesContext, Nil>>
         ELSE <<FALSE, Nil>>

\* Mutant of validateReturns: with two return values, tests the first one.
validateReturnsFirst(t) ==
    IF NumOut(t) > 2 THEN TooManyReturnValues
    ELSE IF NumOut(t) > 1
         THEN IF ~t.out[1] THEN InvalidSecondReturn ELSE Nil
         ELSE IF NumOut(t) = 1
              THEN IF ~t.out[1] THEN InvalidSingleReturn ELSE Nil
              ELSE Nil

\* validateReturns: err
validateReturns(t) ==
    IF NumOut(t) > 2 THEN TooManyReturnValues
    ELSE IF NumOut(t) > 1
         THEN IF ~t.out[2] THEN InvalidSecondReturn ELSE Nil
         ELSE IF NumOut(t) = 1
              THEN IF ~t.out[1] THEN InvalidSingleReturn ELSE Nil
              ELSE Nil

\* Mutant of errorHandler: the closure returns (nil, nil).
errorHandlerSwallows(e) == [kind |-> "errorHandler", e |-> Nil]

\* errorHandler(e): the LambdaHandler that returns (nil, e)
errorHandler(e) == [kind |-> "errorHandler", e |-> e]

\* newHandler: the LambdaHandler built for the application function
newHandler(f) ==
    IF f.kind = "nil" THEN errorHandler(HandlerIsNil)
    ELSE IF f.kind # "func" THEN errorHandler(InvalidHandlerKind)
    ELSE LET va == validateArguments(f)
         IN IF va[2] # Nil THEN errorHandler(va[2])
            ELSE IF validateReturns(f) # Nil THEN errorHandler(validateReturns(f))
            ELSE [kind |-> "adapted", takesContext |-> va[1], handlerType |-> f]

\* This: the InterceptedHandler wrapping newHandler(handler)
This(f) == newHandler(f)

\* Mutant of TakesEvent: a single parameter is always decoded from the payload.
TakesEventAlways(h) == NumIn(h.handlerType) >= 1

\* Line 119: the adapted handler decodes the payload into an input value.
TakesEvent(h) ==
    \/ NumIn(h.handlerType) = 1 /\ ~h.takesContext
    \/ NumIn(h.handlerType) = 2

\* Lines 115-136: the argument list handed to handler.Call.
CallArgs(h) ==
    (IF h.takesContext THEN <<ContextAt(Len(handler) + 1)>> ELSE <<>>)
        \o (IF TakesEvent(h) THEN <<"event">> ELSE <<>>)

\* What the application function can return: one value per return position,
\* an error position holding nil or an error.
AppReturns(t) ==
    IF NumOut(t) = 0 THEN {<<>>}
    ELSE IF NumOut(t) = 1 THEN {<<e>> : e \in AppErrors}
    ELSE {<<v, e>> : v \in AppValues, e \in AppErrors}

\* Mutant of MapReturns: no value is delivered next to an error.
MapReturnsDropsValue(r) ==
    <<IF Len(r) > 1 /\ r[Len(r)] = Nil THEN r[1] ELSE Nil,
      IF Len(r) > 0 THEN r[Len(r)] ELSE Nil>>

\* Lines 138-151: (val, err) from the values handler.Call returned.
MapReturns(r) ==
    <<IF Len(r) > 1 THEN r[1] ELSE Nil,
      IF Len(r) > 0 THEN r[Len(r)] ELSE Nil>>

\* ------------------------------------------------------------------ chain
\* Interceptor: which of the three handlers are set; id is the position the
\* interceptor had in the list given to With.
Interceptors(i) == [id : {i}, Before : BOOLEAN, After : BOOLEAN, OnError : BOOLEAN]

RECURSIVE AdapterLists(_)
AdapterLists(n) ==
    IF n = 0 THEN {<<>>}
    ELSE LET shorter == AdapterLists(n - 1)
         IN shorter \cup {Append(s, a) : s \in {t \in shorter : Len(t) = n - 1},
                                         a \in Interceptors(n)}

\* With: handler = adapters[last-i].handle(handler) for i = 0 .. last; the
\* result lists the layers from the outermost closure to the innermost.
RECURSIVE WithLoop(_, _, _)
WithLoop(adapters, i, h) ==
    IF i >= Len(adapters) THEN h
    ELSE LET last == Len(adapters) - 1
             adapter == adapters[(last - i) + 1]
         IN WithLoop(adapters, i + 1, <<adapter>> \o h)

\* Mutant of With: wraps in list order, so the last interceptor ends up outermost.
WithForward(adapters) ==
    [d \in 1..Len(adapters) |-> adapters[Len(adapters) + 1 - d]]

With(adapters) == WithLoop(adapters, 0, <<>>)

NoReturn == <<"-", "-">>

Pos(p, d, v, e, r) == [pc |-> p, depth |-> d, response |-> v, err |-> e, returned |-> r]

RECURSIVE handle(_, _, _, _)
\* handle, lines 27-38: layer d is called with request v. Without a Before it
\* calls the inner handler at once; the walk stops at the next collaborator call.
handle(h, d, v, r) ==
    IF d > Len(h) THEN Pos("Core", d, v, Nil, r)
    ELSE IF h[d].Before THEN Pos("Before", d, v, Nil, r)
    ELSE handle(h, d + 1, v, r)

RECURSIVE handleReturn(_, _, _, _, _)
RECURSIVE processError(_, _, _, _, _)
RECURSIVE return(_, _, _, _, _)

\* Layer d returns (v, e) to the frame that called it.
return(h, d, v, e, r) ==
    handleReturn(h, d - 1, v, e, [r EXCEPT ![d] = <<v, e>>])

\* Mutant of processError: without an OnError the response is dropped.
processErrorDropsResponse(h, d, v, e, r) ==
    IF h[d].OnError THEN Pos("OnError", d, v, e, r)
    ELSE return(h, d, Nil, e, r)

\* processError: OnError when the interceptor has one, else (response, err).
processError(h, d, v, e, r) ==
    IF h[d].OnError THEN Pos("OnError", d, v, e, r)
    ELSE return(h, d, v, e, r)

\* Mutant of handleReturn: an error of the inner handler is returned as it is,
\* without processError.
handleReturnNoEscalation(h, d, v, e, r) ==
    IF d = 0 THEN Pos("done", 0, v, e, r)
    ELSE IF e # Nil THEN return(h, d, v, e, r)
    ELSE IF h[d].After THEN Pos("After", d, v, e, r)
    ELSE return(h, d, v, e, r)

\* Mutant of handleReturn: After runs before the inner handler's error is looked at.
handleReturnAfterFirst(h, d, v, e, r) ==
    IF d = 0 THEN Pos("done", 0, v, e, r)
    ELSE IF h[d].After THEN Pos("After", d, v, e, r)
    ELSE IF e # Nil THEN processError(h, d, v, e, r)
    ELSE return(h, d, v, e, r)

\* Mutant of handleReturn: a layer without After returns no response.
handleReturnWithoutAfter(h, d, v, e, r) ==
    IF d = 0 THEN Pos("done", 0, v, e, r)
    ELSE IF e # Nil THEN processError(h, d, v, e, r)
    ELSE IF h[d].After THEN Pos("After", d, v, e, r)
    ELSE return(h, d, Nil, e, r)

\* Mutant of handleReturn: an error no layer absorbed ends the process, and
\* the caller of the chain gets nothing.
handleReturnFatal(h, d, v, e, r) ==
    IF d = 0 THEN (IF e # Nil THEN Pos("fatal", 0, v, e, r) ELSE Pos("done", 0, v, e, r))
    ELSE IF e # Nil THEN processError(h, d, v, e, r)
    ELSE IF h[d].After THEN Pos("After", d, v, e, r)
    ELSE return(h, d, v, e, r)

\* handle, lines 38-50: the inner handler returned (v, e) to layer d
\* (d = 0: to the caller of the chain).
handleReturn(h, d, v, e, r) ==
    IF d = 0 THEN Pos("done", 0, v, e, r)
    ELSE IF e # Nil THEN processError(h, d, v, e, r)
    ELSE IF h[d].After THEN Pos("After", d, v, e, r)
    ELSE return(h, d, v, e, r)

Goto(p) ==
    /\ pc' = p.pc
    /\ depth' = p.depth
    /\ response' = p.response
    /\ err' = p.err
    /\ returned' = p.returned

Event(d, phase, v, e, outV, outE) ==
    [id |-> handler[d].id, phase |-> phase, inV |-> v, inE |-> e, outV |-> outV, outE |-> outE,
     ctx |-> ContextAt(d)]

\* ------------------------------------------------------------------ actions
\* gointercept.This(handlerFunc)
CallThis ==
    /\ pc = "new"
    /\ core' = This(handlerFunc)
    /\ pc' = "built"
    /\ UNCHANGED <<ctx, input, parked, handlerFunc, handler, depth, response, err, trace, returned, calls>>

\* .With(adapters...)
CallWith ==
    /\ pc = "built"
    /\ \E adapters \in AdapterLists(MaxLayers) :
        /\ handler' = With(adapters)
        /\ returned' = [d \in 1..Len(adapters) |-> NoReturn]
    /\ pc' = "idle"
    /\ UNCHANGED <<ctx, input, parked, handlerFunc, core, depth, response, err, trace, calls>>

\* The caller invokes the composed handler with (ctx, request).
Invoke ==
    /\ pc = "idle"
    /\ Goto(handle(handler, 1, Request, [d \in 1..Len(handler) |-> NoReturn]))
    /\ trace' = <<>>
    /\ calls' = <<>>
    /\ UNCHANGED <<ctx, input, parked, handlerFunc, core, handler>>

\* Mutant of Before: the inner handler is called with the request Before was given.
BeforeDropsValue ==
    /\ pc = "Before"
    /\ \E v \in {ValueOf("Before", handler[depth].id)},
          e \in {Nil, ErrorOf("Before", handler[depth].id)} :
        /\ trace' = Append(trace, Event(depth, "Before", response, Nil, v, e))
        /\ IF e # Nil
           THEN Goto(processError(handler, depth, v, e, returned))
           ELSE Goto(handle(handler, depth + 1, response, returned))
    /\ UNCHANGED <<ctx, input, parked, handlerFunc, core, handler, calls>>

\* Mutant of Before: the error Before returned is not looked at.
BeforeContinues ==
    /\ pc = "Before"
    /\ \E v \in {ValueOf("Before", handler[depth].id)},
          e \in {Nil, ErrorOf("Before", handler[depth].id)} :
        /\ trace' = Append(trace, Event(depth, "Before", response, Nil, v, e))
        /\ Goto(handle(handler, depth + 1, v, returned))
    /\ UNCHANGED <<ctx, input, parked, handlerFunc, core, handler, calls>>

\* interceptor.Before(ctx, request), lines 31-36
Before ==
    /\ pc = "Before"
    /\ \E v \in {ValueOf("Before", handler[depth].id)},
          e \in {Nil, ErrorOf("Before", handler[depth].id)} :
        /\ trace' = Append(trace, Event(depth, "Before", response, Nil, v, e))
        /\ IF e # Nil
           THEN Goto(processError(handler, depth, v, e, returned))
           ELSE Goto(handle(handler, depth + 1, v, returned))
    /\ UNCHANGED <<ctx, input, parked, handlerFunc, core, handler, calls>>

\* An error that wraps the codec's error e and carries the raw payload.
PayloadDecodeError(payload, e) == "PayloadDecodeError(" \o payload \o "): " \o e

\* Mutant of DecodeFailures: the codec's error is wrapped with the payload.
DecodeFailuresWrapped(payload) ==
    {[args |-> <<>>, called |-> FALSE, raw |-> <<>>,
      ret |-> <<Nil, PayloadDecodeError(payload, e)>>] : e \in CodecErrors}

\* Lines 123-134: the payload cannot be encoded (GetBytes) or cannot be decoded
\* into the input type (json.Unmarshal); the adapted handler returns (nil, err)
\* with the codec's error and does not call the application function.
DecodeFailures(payload) ==
    {[args |-> <<>>, called |-> FALSE, raw |-> <<>>, ret |-> <<Nil, e>>] : e \in CodecErrors}

\* Mutant of CoreOutcomes: errorHandler's closure returns its error as the value.
CoreOutcomesErrorAsValue(h, payload) ==
    IF h.kind = "errorHandler"
    THEN {[args |-> <<>>, called |-> FALSE, raw |-> <<>>, ret |-> <<h.e, Nil>>]}
    ELSE (IF TakesEvent(h) THEN DecodeFailures(payload) ELSE {})
         \cup {[args |-> CallArgs(h), called |-> TRUE, raw |-> r, ret |-> MapReturns(r)] :
                   r \in AppReturns(h.handlerType)}

\* What one call of the innermost handler can do with the payload: errorHandler's
\* closure (lines 89-91) or the adapted application function (lines 114-152).
CoreOutcomes(h, payload) ==
    IF h.kind = "errorHandler"
    THEN {[args |-> <<>>, called |-> FALSE, raw |-> <<>>, ret |-> <<Nil, h.e>>]}
    ELSE (IF TakesEvent(h) THEN DecodeFailures(payload) ELSE {})
         \cup {[args |-> CallArgs(h), called |-> TRUE, raw |-> r, ret |-> MapReturns(r)] :
                   r \in AppReturns(h.handlerType)}

\* The innermost handler is called with (ctx, payload).
Core ==
    /\ pc = "Core"
    /\ \E out \in CoreOutcomes(core, response) :
        /\ calls' = IF out.called THEN Append(calls, out.args) ELSE calls
        /\ trace' = Append(trace, [id |-> 0, phase |-> "Core", inV |-> response, inE |-> Nil,
                                   outV |-> out.ret[1], outE |-> out.ret[2],
                                   called |-> out.called, raw |-> out.raw,
                                   ctx |-> ContextAt(depth)])
        /\ Goto(handleReturn(handler, depth - 1, out.ret[1], out.ret[2], returned))
    /\ UNCHANGED <<ctx, input, parked, handlerFunc, core, handler>>

\* Mutant of After: an error of After is returned without processError.
AfterSkipsOnError ==
    /\ pc = "After"
    /\ \E v \in {ValueOf("After", handler[depth].id)},
          e \in {Nil, ErrorOf("After", handler[depth].id)} :
        /\ trace' = Append(trace, Event(depth, "After", response, Nil, v, e))
        /\ Goto(return(handler, depth, v, e, returned))
    /\ UNCHANGED <<ctx, input, parked, handlerFunc, core, handler, calls>>

\* interceptor.After(ctx, response), lines 43-48
After ==
    /\ pc = "After"
    /\ \E v \in {ValueOf("After", handler[depth].id)},
          e \in {Nil, ErrorOf("After", handler[depth].id)} :
        /\ trace' = Append(trace, Event(depth, "After", response, Nil, v, e))
        /\ IF e # Nil
           THEN Goto(processError(handler, depth, v, e, returned))
           ELSE Goto(return(handler, depth, v, e, returned))
    /\ UNCHANGED <<ctx, input, parked, handlerFunc, core, handler, calls>>

\* Mutant of OnError: an error OnError returns is handled again by processError.
OnErrorRetried ==
    /\ pc = "OnError"
    /\ \E v \in {ValueOf("OnError", handler[depth].id)},
          e \in {Nil, err, ErrorOf("OnError", handler[depth].id)} :
        /\ trace' = Append(trace, Event(depth, "OnError", response, err, v, e))
        /\ IF e # Nil
           THEN Goto(processError(handler, depth, v, e, returned))
           ELSE Goto(return(handler, depth, v, e, returned))
    /\ UNCHANGED <<ctx, input, parked, handlerFunc, core, handler, calls>>

\* Mutant of OnError: the layer returns OnError's value with the error it had.
OnErrorKeepsErr ==
    /\ pc = "OnError"
    /\ \E v \in {ValueOf("OnError", handler[depth].id)},
          e \in {Nil, err, ErrorOf("OnError", handler[depth].id)} :
        /\ trace' = Append(trace, Event(depth, "OnError", response, err, v, e))
        /\ Goto(return(handler, depth, v, err, returned))
    /\ UNCHANGED <<ctx, input, parked, handlerFunc, core, handler, calls>>

\* Mutant of OnError: the layer returns OnError's error with the response it had.
OnErrorKeepsResponse ==
    /\ pc = "OnError"
    /\ \E v \in {ValueOf("OnError", handler[depth].id)},
          e \in {Nil, err, ErrorOf("OnError", handler[depth].id)} :
        /\ trace' = Append(trace, Event(depth, "OnError", response, err, v, e))
        /\ Goto(return(handler, depth, response, e, returned))
    /\ UNCHANGED <<ctx, input, parked, handlerFunc, core, handler, calls>>

\* Mutant of OnError: a layer whose OnError returned a nil error goes on to
\* its own After.
OnErrorThenAfter ==
    /\ pc = "OnError"
    /\ \E v \in {ValueOf("OnError", handler[depth].id)},
          e \in {Nil, err, ErrorOf("OnError", handler[depth].id)} :
        /\ trace' = Append(trace, Event(depth, "OnError", response, err, v, e))
        /\ IF e = Nil /\ handler[depth].After
           THEN Goto(Pos("After", depth, v, e, returned))
           ELSE Goto(return(handler, depth, v, e, returned))
    /\ UNCHANGED <<ctx, input, parked, handlerFunc, core, handler, calls>>

\* interceptor.OnError(ctx, response, err), line 56
OnError ==
    /\ pc = "OnError"
    /\ \E v \in {ValueOf("OnError", handler[depth].id)},
          e \in {Nil, err, ErrorOf("OnError", handler[depth].id)} :
        /\ trace' = Append(trace, Event(depth, "OnError", response, err, v, e))
        /\ Goto(return(handler, depth, v, e, returned))
    /\ UNCHANGED <<ctx, input, parked, handlerFunc, core, handler, calls>>

\* The caller has its (value, error) and the frames of the invocation are
\* gone; the chain can be invoked again.
Finish ==
    /\ pc = "done"
    /\ pc' = "idle"
    /\ response' = Nil
    /\ err' = Nil
    /\ trace' = <<>>
    /\ calls' = <<>>
    /\ returned' = [d \in 1..Len(handler) |-> NoReturn]
    /\ UNCHANGED <<ctx, input, parked, handlerFunc, core, handler, depth>>

\* ------------------------------------------------------------------ specifications
\* The caller has no other invocation.
NoInvocation == [pc |-> "none"]

InitCommon ==
    /\ core = [kind |-> "none"]
    /\ handler = <<>>
    /\ pc = "new"
    /\ depth = 0
    /\ response = Nil
    /\ err = Nil
    /\ trace = <<>>
    /\ returned = <<>>
    /\ calls = <<>>
    /\ parked = NoInvocation
    /\ input = <<>>
    /\ ctx = Ctx

\* The chain engine around the handler of the repository's tests.
Init == handlerFunc = simpleFunction /\ InitCommon

Next == CallThis \/ CallWith \/ Invoke \/ Before \/ Core \/ After \/ OnError \/ Finish

Spec == Init /\ [][Next]_vars


\* The adapter alone: any application function, adapted and invoked through
\* With() given no interceptor.
CallWithNone ==
    /\ pc = "built"
    /\ handler' = With(<<>>)
    /\ returned' = <<>>
    /\ pc' = "idle"
    /\ UNCHANGED <<ctx, input, parked, handlerFunc, core, depth, response, err, trace, calls>>

\* The caller invokes the composed handler with (ctx, nil).
InvokeNil ==
    /\ pc = "idle"
    /\ Goto(handle(handler, 1, Nil, [d \in 1..Len(handler) |-> NoReturn]))
    /\ trace' = <<>>
    /\ calls' = <<>>
    /\ UNCHANGED <<ctx, input, parked, handlerFunc, core, handler>>

InitAdapt == handlerFunc \in HandlerFuncs /\ InitCommon

NextAdapt == CallThis \/ CallWithNone \/ Invoke \/ InvokeNil \/ Core \/ Finish

SpecAdapt == InitAdapt /\ [][NextAdapt]_vars

\* ------------------------------------------------------------------ JSON
MaxApiLayers == 3

\* JSON texts: an object with its members in order, null, and the empty text.
Str(name, s) == [name |-> name, kind |-> "string", str |-> s, num |-> 0]
Num(name, n) == [name |-> name, kind |-> "number", str |-> "", num |-> n]
JsonObject(members) == [kind |-> "object", members |-> members]
JsonNull == [kind |-> "null", members |-> <<>>]
JsonEmpty == [kind |-> "empty", members |-> <<>>]

RECURSIVE MembersText(_, _, _, _)
MembersText(m, i, q, sp) ==
    IF i > Len(m) THEN ""
    ELSE (IF i > 1 THEN "," \o sp ELSE "")
         \o q \o m[i].name \o q \o ":" \o sp
         \o (IF m[i].kind = "string" THEN q \o m[i].str \o q ELSE ToString(m[i].num))
         \o MembersText(m, i + 1, q, sp)

\* The characters of a JSON text, its quotation marks written as q and its
\* members separated by sp.
Text(json, q, sp) ==
    IF json.kind = "object" THEN "{" \o MembersText(json.members, 1, q, sp) \o "}"
    ELSE IF json.kind = "null" THEN "null"
    ELSE ""

\* fmt's %#v of a string: the text between quotation marks, its own escaped.
GoQuote(json) == "\"" \o Text(json, "\\\"", " ") \o "\""

\* type Input struct { Content string `json:"content"`; Value int `json:"value"` }
ZeroInput == [Content |-> "", Value |-> 0]

\* encoding/json's error for a member of the wrong type.
UnmarshalTypeError(m, field, type) ==
    "json: cannot unmarshal " \o m.kind \o " into Go struct field Input." \o field
        \o " of type " \o type

RECURSIVE DecodeMembers(_, _, _, _, _)
\* encoding/json decodes the members of an object into an Input, in order:
\* a member of the wrong type or (when not allowed) of an unknown name is
\* skipped and the first such error is the one returned.
DecodeMembers(v, m, i, allowUnknownFields, e) ==
    IF i > Len(m) THEN <<v, e>>
    ELSE LET first(x) == IF e = Nil THEN x ELSE e
         IN IF m[i].name \in {"content", "Content"}
            THEN IF m[i].kind = "string"
                 THEN DecodeMembers([v EXCEPT !.Content = m[i].str], m, i + 1,
                                    allowUnknownFields, e)
                 ELSE DecodeMembers(v, m, i + 1, allowUnknownFields,
                                    first(UnmarshalTypeError(m[i], "content", "string")))
            ELSE IF m[i].name \in {"value", "Value"}
            THEN IF m[i].kind = "number"
                 THEN DecodeMembers([v EXCEPT !.Value = m[i].num], m, i + 1,
                                    allowUnknownFields, e)
                 ELSE DecodeMembers(v, m, i + 1, allowUnknownFields,
                                    first(UnmarshalTypeError(m[i], "value", "int")))
            ELSE IF allowUnknownFields
            THEN DecodeMembers(v, m, i + 1, allowUnknownFields, e)
            ELSE DecodeMembers(v, m, i + 1, allowUnknownFields,
                               first("json: unknown field \"" \o m[i].name \o "\""))

\* json.Decoder.Decode(&v) on a text: <<v, err>>
Decode(v, json, allowUnknownFields) ==
    IF json.kind = "empty" THEN <<v, "EOF">>
    ELSE IF json.kind = "null" THEN <<v, Nil>>
    ELSE DecodeMembers(v, json.members, 1, allowUnknownFields, Nil)

\* ------------------------------------------------------------------ payloads
StatusOK == 200
StatusBadRequest == 400
StatusUnprocessableEntity == 422

\* The payloads of the end-to-end chains: the nil interface, the request, a
\* response, the pointer ParseInput was given, simpleFunction's *Output, a
\* byte slice (its bytes one character each) and a value encoding/json cannot
\* encode.
NilValue == [type |-> "nil"]
APIGatewayProxyRequestWith(body, headers, multiValueHeaders) ==
    [type |-> "APIGatewayProxyRequest", Body |-> body,
     Headers |-> headers, MultiValueHeaders |-> multiValueHeaders]
APIGatewayProxyRequest(body) == APIGatewayProxyRequestWith(body, <<>>, <<>>)
APIGatewayProxyResponse(code, body, headers) ==
    [type |-> "APIGatewayProxyResponse", StatusCode |-> code, Body |-> body,
     Headers |-> headers]
InputPtr(id) == [type |-> "*Input", of |-> id]
Output(status, content) ==
    [type |-> "*Output", isNil |-> FALSE, Status |-> status, Content |-> content]
NilOutput == [type |-> "*Output", isNil |-> TRUE, Status |-> "", Content |-> ""]
Unencodable == [type |-> "chan"]
Bytes(b) == [type |-> "[]byte", bytes |-> b]

RECURSIVE Join(_)
\* string(b)
Join(b) == IF b = <<>> THEN "" ELSE Head(b) \o Join(Tail(b))

\* json.HTMLEscape: the bytes with <, > and & written as \u003c, \u003e, \u0026
HTMLEscape(b) ==
    [i \in DOMAIN b |->
        CASE b[i] = "<" -> "\\u003c"
          [] b[i] = ">" -> "\\u003e"
          [] b[i] = "&" -> "\\u0026"
          [] OTHER -> b[i]]

\* json.Marshal(v): <<text, err>>. A request is encoded with its body alone,
\* a response with its status and body: no payload that is encoded has a
\* header. Byte slices only come out of the core and are never encoded.
Marshal(v, store) ==
    CASE v.type = "nil" -> <<JsonNull, Nil>>
      [] v.type = "*Output" ->
            <<IF v.isNil THEN JsonNull
              ELSE JsonObject(<<Str("Status", v.Status), Str("Content", v.Content)>>), Nil>>
      [] v.type = "*Input" ->
            <<JsonObject(<<Str("content", store[v.of].Content),
                           Num("value", store[v.of].Value)>>), Nil>>
      [] v.type = "APIGatewayProxyRequest" ->
            <<JsonObject(<<Str("body", Text(v.Body, "\\\"", " "))>>), Nil>>
      [] v.type = "APIGatewayProxyResponse" ->
            <<JsonObject(<<Num("statusCode", v.StatusCode), Str("body", v.Body)>>), Nil>>
      [] v.type = "chan" -> <<JsonEmpty, "json: unsupported type: chan int">>

\* GetBytes: the JSON encoding of key
GetBytes(key, store) == Marshal(key, store)

\* Mutant of ConvertToAPIGatewayResponse: the new response starts as a success.
ConvertToAPIGatewayResponseOK(value, store) ==
    IF value.type = "APIGatewayProxyResponse" THEN <<value, Nil>>
    ELSE IF value.type = "[]byte"
    THEN <<APIGatewayProxyResponse(StatusOK, Join(HTMLEscape(value.bytes)), <<>>), Nil>>
    ELSE LET b == Marshal(value, store)
         IN IF b[2] # Nil THEN <<APIGatewayProxyResponse(0, "", <<>>), b[2]>>
            ELSE <<APIGatewayProxyResponse(StatusOK, Text(b[1], "\"", ""), <<>>), Nil>>

\* Mutant of ConvertToAPIGatewayResponse: a response is encoded like any value.
ConvertToAPIGatewayResponseWraps(value, store) ==
    IF value.type = "[]byte"
    THEN <<APIGatewayProxyResponse(0, Join(HTMLEscape(value.bytes)), <<>>), Nil>>
    ELSE LET b == Marshal(value, store)
         IN IF b[2] # Nil THEN <<APIGatewayProxyResponse(0, "", <<>>), b[2]>>
            ELSE <<APIGatewayProxyResponse(0, Text(b[1], "\"", ""), <<>>), Nil>>

\* ConvertToAPIGatewayResponse: <<apiGatewayResponse, err>>. The texts
\* json.Marshal gives hold no character json.HTMLEscape changes; the bytes of a
\* byte slice can.
ConvertToAPIGatewayResponse(value, store) ==
    IF value.type = "APIGatewayProxyResponse" THEN <<value, Nil>>
    ELSE IF value.type = "[]byte"
    THEN <<APIGatewayProxyResponse(0, Join(HTMLEscape(value.bytes)), <<>>), Nil>>
    ELSE LET b == Marshal(value, store)
         IN IF b[2] # Nil THEN <<APIGatewayProxyResponse(0, "", <<>>), b[2]>>
            ELSE <<APIGatewayProxyResponse(0, Text(b[1], "\"", ""), <<>>), Nil>>

\* GetBody: <<body, err>>, the Body of a request; any other payload is encoded
\* and decoded into struct{Body}, and the payloads that reach it here (nil, a
\* pointer to an Input or an Output) have no member of that name.
GetBody(request, store) ==
    CASE request.type = "APIGatewayProxyRequest" -> <<request.Body, Nil>>
      [] request.type \in {"nil", "*Input", "*Output"} -> <<JsonEmpty, Nil>>
      [] request.type = "chan" -> <<JsonEmpty, GetBytes(request, store)[2]>>

\* ------------------------------------------------------------------ interceptors
\* *DefaultStatusCodes; NoStatusCodes is the nil pointer.
DefaultStatusCodes(success, error) == [isNil |-> FALSE, Success |-> success, Error |-> error]
NoStatusCodes == [isNil |-> TRUE, Success |-> 0, Error |-> 0]

\* The interceptors of package interceptors, as values: what With looks at
\* (which phases are set) and what their closures captured.
CreateAPIGatewayProxyResponse(id, defaultStatusCode) ==
    [id |-> id, kind |-> "CreateAPIGatewayProxyResponse",
     Before |-> FALSE, After |-> TRUE, OnError |-> TRUE,
     defaultStatusCode |-> defaultStatusCode, allowUnknownFields |-> FALSE]
ParseInput(id, allowUnknownFields) ==
    [id |-> id, kind |-> "ParseInput",
     Before |-> TRUE, After |-> FALSE, OnError |-> FALSE,
     defaultStatusCode |-> NoStatusCodes, allowUnknownFields |-> allowUnknownFields]

\* map[string]string from a set of <<key, value>>, its keys distinct. The nil
\* map is the map without keys: they differ in nothing that is read here.
HeaderMap(pairs) ==
    [k \in {p[1] : p \in pairs} |-> (CHOOSE p \in pairs : p[1] = k)[2]]

\* AddHeaders(headers)
AddHeaders(id, headers) ==
    [id |-> id, kind |-> "AddHeaders",
     Before |-> FALSE, After |-> TRUE, OnError |-> FALSE, headers |-> headers]

\* type securityHeaders struct, as getDefaults() returns it
getDefaults ==
    [activateDnsPrefetchControl |-> TRUE,
     frameGuardAction |-> "DENY",
     hidePoweredByWith |-> "",
     hsts |-> [maxAge |-> 180 * 24 * 60 * 60, includeSubDomains |-> TRUE, preLoad |-> TRUE],
     activateIENoOpen |-> TRUE,
     activateNoSniff |-> TRUE,
     referrerPolicy |-> "no-referrer"]

\* type Option func(*securityHeaders): the functions that return one
DnsPrefetchControl(activate) == [option |-> "DnsPrefetchControl", activate |-> activate]
FrameGuard(action) == [option |-> "FrameGuard", action |-> action]
HidePoweredBy(with) == [option |-> "HidePoweredBy", with |-> with]
HttpStrictTransportSecurity(maxAge, includeSubDomains, preLoad) ==
    [option |-> "HttpStrictTransportSecurity", maxAge |-> maxAge,
     includeSubDomains |-> includeSubDomains, preLoad |-> preLoad]
IENoOpen(activate) == [option |-> "IENoOpen", activate |-> activate]
NoSniff(activate) == [option |-> "NoSniff", activate |-> activate]
ReferrerPolicy(policy) == [option |-> "ReferrerPolicy", policy |-> policy]

\* opt(&securityHeaders)
ApplyOption(opt, f) ==
    CASE opt.option = "DnsPrefetchControl" ->
            [f EXCEPT !.activateDnsPrefetchControl = opt.activate]
      [] opt.option = "FrameGuard" -> [f EXCEPT !.frameGuardAction = opt.action]
      [] opt.option = "HidePoweredBy" -> [f EXCEPT !.hidePoweredByWith = opt.with]
      [] opt.option = "HttpStrictTransportSecurity" ->
            [f EXCEPT !.hsts = [maxAge |-> opt.maxAge,
                                includeSubDomains |-> opt.includeSubDomains,
                                preLoad |-> opt.preLoad]]
      [] opt.option = "IENoOpen" -> [f EXCEPT !.activateIENoOpen = opt.activate]
      [] opt.option = "NoSniff" -> [f EXCEPT !.activateNoSniff = opt.activate]
      [] opt.option = "ReferrerPolicy" -> [f EXCEPT !.referrerPolicy = opt.policy]

RECURSIVE ApplyOptionsFirstWins(_, _)
\* Mutant of ApplyOptions: the options are applied last to first.
ApplyOptionsFirstWins(options, f) ==
    IF options = <<>> THEN f
    ELSE ApplyOption(Head(options), ApplyOptionsFirstWins(Tail(options), f))

RECURSIVE ApplyOptions(_, _)
\* for _, opt := range options { opt(&securityHeaders) }
ApplyOptions(options, f) ==
    IF options = <<>> THEN f
    ELSE ApplyOptions(Tail(options), ApplyOption(Head(options), f))

\* The headers AddSecurityHeaders builds from the struct.
SecurityHeaderMap(f) ==
    HeaderMap(
        {<<"X-DNS-Prefetch-Control", IF f.activateDnsPrefetchControl THEN "on" ELSE "off">>,
         <<"X-Frame-Options", f.frameGuardAction>>,
         <<"X-Powered-By", f.hidePoweredByWith>>,
         <<"Strict-Transport-Security",
           ToString(f.hsts.maxAge)
               \o (IF f.hsts.includeSubDomains THEN "; includeSubDomains" ELSE "")
               \o (IF f.hsts.preLoad THEN "; preLoad" ELSE "")>>,
         <<"Referrer-Policy", f.referrerPolicy>>}
        \cup (IF f.activateIENoOpen THEN {<<"X-Download-Options", "noopen">>} ELSE {})
        \cup (IF f.activateNoSniff THEN {<<"X-Content-Type-Options", "nosniff">>} ELSE {}))

\* AddSecurityHeaders(options...): the interceptor AddHeaders(headers) returns;
\* the options are kept to tell which call built it.
AddSecurityHeaders(id, options) ==
    [id |-> id, kind |-> "AddSecurityHeaders",
     Before |-> FALSE, After |-> TRUE, OnError |-> FALSE,
     headers |-> SecurityHeaderMap(ApplyOptions(options, getDefaults)),
     options |-> options]

\* The keys of request headers are strings one character each, for
\* strings.ToLower and strings.Title to work on.
Uppers == <<"A", "B", "C", "D", "E", "F", "G", "H", "I", "J", "K", "L", "M",
            "N", "O", "P", "Q", "R", "S", "T", "U", "V", "W", "X", "Y", "Z">>
Lowers == <<"a", "b", "c", "d", "e", "f", "g", "h", "i", "j", "k", "l", "m",
            "n", "o", "p", "q", "r", "s", "t", "u", "v", "w", "x", "y", "z">>
\* strings.ToLower
ToLower(key) ==
    [i \in DOMAIN key |->
        IF \E u \in DOMAIN Uppers : Uppers[u] = key[i]
        THEN Lowers[CHOOSE u \in DOMAIN Uppers : Uppers[u] = key[i]]
        ELSE key[i]]
\* strings.Title: the letters that begin a word in title case; a word begins
\* after anything that is no letter, digit or underscore.
Title(key) ==
    LET isLetter(c) == \E u \in DOMAIN Uppers : c \in {Uppers[u], Lowers[u]}
        isSeparator(c) ==
            ~(isLetter(c) \/ c = "_"
                \/ c \in {"0", "1", "2", "3", "4", "5", "6", "7", "8", "9"})
    IN [i \in DOMAIN key |->
           IF (i = 1 \/ isSeparator(key[i - 1]))
                /\ \E l \in DOMAIN Lowers : Lowers[l] = key[i]
           THEN Uppers[CHOOSE l \in DOMAIN Lowers : Lowers[l] = key[i]]
           ELSE key[i]]

\* exceptionsMap: from the lower-case form of each header name
\* getExceptionsMap is given to the name
exceptionsMap ==
    LET exceptions ==
            {<<"A", "L", "P", "N">>,
             <<"C", "-", "P", "E", "P">>,
             <<"C", "-", "P", "E", "P", "-", "I", "n", "f", "o">>,
             <<"C", "a", "l", "D", "A", "V", "-", "T", "i", "m", "e", "z", "o", "n", "e", "s">>,
             <<"C", "o", "n", "t", "e", "n", "t", "-", "I", "D">>,
             <<"C", "o", "n", "t", "e", "n", "t", "-", "M", "D", "5">>,
             <<"D", "A", "S", "L">>,
             <<"D", "A", "V">>,
             <<"D", "N", "T">>,
             <<"E", "T", "a", "g">>,
             <<"G", "e", "t", "P", "r", "o", "f", "i", "l", "e">>,
             <<"H", "T", "T", "P", "2", "-", "S", "e", "t", "t", "i", "n", "g", "s">>,
             <<"L", "a", "s", "t", "-", "E", "v", "e", "n", "t", "-", "I", "D">>,
             <<"M", "I", "M", "E", "-", "V", "e", "r", "s", "i", "o", "n">>,
             <<"O", "p", "t", "i", "o", "n", "a", "l", "-", "W", "W", "W", "-", "A", "u", "t",
              "h", "e", "n", "t", "i", "c", "a", "t", "e">>,
             <<"S", "e", "c", "-", "W", "e", "b", "S", "o", "c", "k", "e", "t", "-", "A", "c",
              "c", "e", "p", "t">>,
             <<"S", "e", "c", "-", "W", "e", "b", "S", "o", "c", "k", "e", "t", "-", "E", "x",
              "t", "e", "n", "s", "i", "o", "n", "s">>,
             <<"S", "e", "c", "-", "W", "e", "b", "S", "o", "c", "k", "e", "t", "-", "K", "e",
              "y">>,
             <<"S", "e", "c", "-", "W", "e", "b", "S", "o", "c", "k", "e", "t", "-", "P", "r",
              "o", "t", "o", "c", "o", "l">>,
             <<"S", "e", "c", "-", "W", "e", "b", "S", "o", "c", "k", "e", "t", "-", "V", "e",
              "r", "s", "i", "o", "n">>,
             <<"S", "L", "U", "G">>,
             <<"T", "C", "N">>,
             <<"T", "E">>,
             <<"T", "T", "L">>,
             <<"W", "W", "W", "-", "A", "u", "t", "h", "e", "n", "t", "i", "c", "a", "t", "e">>,
             <<"X", "-", "A", "T", "T", "-", "D", "e", "v", "i", "c", "e", "I", "d">>,
             <<"X", "-", "D", "N", "S", "P", "r", "e", "f", "e", "t", "c", "h", "-", "C", "o",
              "n", "t", "r", "o", "l">>,
             <<"X", "-", "U", "I", "D", "H">>}
    IN [k \in {ToLower(e) : e \in exceptions} |->
           CHOOSE e \in exceptions : ToLower(e) = k]

normalizeKey(key, canonical) ==
    LET lowerKey == ToLower(key)
    IN IF canonical
       THEN IF lowerKey \in DOMAIN exceptionsMap THEN exceptionsMap[lowerKey]
            ELSE Title(lowerKey)
       ELSE lowerKey

\* NormalizeHTTPRequestHeaders(canonical)
NormalizeHTTPRequestHeaders(id, canonical) ==
    [id |-> id, kind |-> "NormalizeHTTPRequestHeaders",
     Before |-> TRUE, After |-> FALSE, OnError |-> FALSE, canonical |-> canonical]

\* for key, value := range m { m[normalizeKey(key, canonical)] = value }: the
\* maps the loop can leave. Every key the map had is visited, in any order,
\* and stays in the map; a key set by the loop is normalized already, and
\* visiting it changes nothing. A normalized key ends with the value of the
\* key of another spelling visited last, or with its own when there is none.
Normalized(m, canonical) ==
    LET norm(k) == normalizeKey(k, canonical)
        from(t) == {k \in DOMAIN m : norm(k) = t /\ k # t}
        keys == DOMAIN m \cup {norm(k) : k \in DOMAIN m}
    IN {n \in [keys -> {m[k] : k \in DOMAIN m}] :
            \A t \in keys :
                IF from(t) = {} THEN n[t] = m[t] ELSE \E k \in from(t) : n[t] = m[k]}

\* A JSON schema for an object: the properties it types and bounds, and the
\* names it requires; NoSchema is the text `no schema`, which is no JSON.
Property(name, type, bounded, minimum, maximum) ==
    [name |-> name, type |-> type, bounded |-> bounded,
     minimum |-> minimum, maximum |-> maximum]
Schema(properties, required) ==
    [valid |-> TRUE, properties |-> properties, required |-> required]
NoSchema == [valid |-> FALSE, properties |-> <<>>, required |-> <<>>]

RECURSIVE SchemaErrors(_, _, _)
\* The errors of the properties, then those of the required names: a member
\* of a type or beyond a bound its property does not allow, a name no member has.
SchemaErrors(rs, i, json) ==
    LET members == json.members
        n == Len(rs.properties)
    IN IF i > n + Len(rs.required) THEN <<>>
       ELSE IF i > n
       THEN (IF \E j \in DOMAIN members : members[j].name = rs.required[i - n]
             THEN <<>>
             ELSE <<"/: " \o Text(json, "\"", "") \o " \"" \o rs.required[i - n]
                        \o "\" value is required">>)
            \o SchemaErrors(rs, i + 1, json)
       ELSE LET p == rs.properties[i]
                I == {j \in DOMAIN members : members[j].name = p.name}
                m == members[CHOOSE j \in I : \A l \in I : l <= j]
                type == IF m.kind = "string" THEN "string" ELSE "integer"
                at == "/" \o p.name \o ": "
                          \o (IF m.kind = "string" THEN "\"" \o m.str \o "\""
                              ELSE ToString(m.num))
            IN (IF I = {} THEN <<>>
                ELSE (IF type # p.type
                      THEN <<at \o " type should be " \o p.type \o ", got " \o type>>
                      ELSE <<>>)
                     \o (IF p.bounded /\ m.kind = "number" /\ m.num < p.minimum
                         THEN <<at \o " must be greater than or equal to "
                                   \o ToString(p.minimum) \o ".000000">>
                         ELSE <<>>)
                     \o (IF p.bounded /\ m.kind = "number" /\ m.num > p.maximum
                         THEN <<at \o " must be less than or equal to "
                                   \o ToString(p.maximum) \o ".000000">>
                         ELSE <<>>))
               \o SchemaErrors(rs, i + 1, json)

\* rs.ValidateBytes(ctx, body): <<errs, err>>. The validator is a library;
\* its errors are written as its messages are, the value of a required-error
\* in full, and listed in the order of the schema: properties, then required.
ValidateBytes(rs, json) ==
    IF json.kind = "empty"
    THEN <<<<>>, "error parsing JSON bytes: unexpected end of JSON input">>
    ELSE IF json.kind = "null"
    THEN <<<<"/: null type should be object, got null">>, Nil>>
    ELSE <<SchemaErrors(rs, 1, json), Nil>>

\* &HTTPError{code, message}: the two fields in the order of the literal. Its
\* Error() gives the message; the code is read by no interceptor.
HTTPError(code, message) == <<code, message>>

\* ValidateBodyJSONSchema(schema)
ValidateBodyJSONSchema(id, schema) ==
    [id |-> id, kind |-> "ValidateBodyJSONSchema",
     Before |-> TRUE, After |-> FALSE, OnError |-> TRUE, schema |-> schema]

\* What a phase returns: (v, e), and the Inputs behind the pointers afterwards.
PhaseResult(v, e, store) == [v |-> v, e |-> e, input |-> store]

\* Mutant of CreateAPIGatewayProxyResponseAfter: the default replaces any status.
CreateAPIGatewayProxyResponseAfterAlways(h, payload, store) ==
    LET c == ConvertToAPIGatewayResponse(payload, store)
        converted == c[1]
    IN IF c[2] # Nil THEN PhaseResult(payload, c[2], store)
       ELSE IF ~h.defaultStatusCode.isNil
       THEN PhaseResult([converted EXCEPT !.StatusCode = h.defaultStatusCode.Success],
                        Nil, store)
       ELSE PhaseResult(converted, Nil, store)

\* CreateAPIGatewayProxyResponse: After
CreateAPIGatewayProxyResponseAfter(h, payload, store) ==
    LET c == ConvertToAPIGatewayResponse(payload, store)
        converted == c[1]
    IN IF c[2] # Nil THEN PhaseResult(payload, c[2], store)
       ELSE IF converted.StatusCode = 0 /\ ~h.defaultStatusCode.isNil
       THEN PhaseResult([converted EXCEPT !.StatusCode = h.defaultStatusCode.Success],
                        Nil, store)
       ELSE PhaseResult(converted, Nil, store)

\* Mutant of CreateAPIGatewayProxyResponseOnError: the error is returned with
\* the response made of it.
CreateAPIGatewayProxyResponseOnErrorPasses(h, payload, e, store) ==
    LET c == ConvertToAPIGatewayResponse(payload, store)
        converted == c[1]
    IN IF c[2] # Nil THEN PhaseResult(payload, Nil, store)
       ELSE IF converted.StatusCode = 0 /\ ~h.defaultStatusCode.isNil
       THEN PhaseResult([converted EXCEPT !.StatusCode = h.defaultStatusCode.Error,
                                         !.Body = e], e, store)
       ELSE PhaseResult([converted EXCEPT !.Body = e], e, store)

\* CreateAPIGatewayProxyResponse: OnError
CreateAPIGatewayProxyResponseOnError(h, payload, e, store) ==
    LET c == ConvertToAPIGatewayResponse(payload, store)
        converted == c[1]
    IN IF c[2] # Nil THEN PhaseResult(payload, Nil, store)
       ELSE IF converted.StatusCode = 0 /\ ~h.defaultStatusCode.isNil
       THEN PhaseResult([converted EXCEPT !.StatusCode = h.defaultStatusCode.Error,
                                         !.Body = e], Nil, store)
       ELSE PhaseResult([converted EXCEPT !.Body = e], Nil, store)

\* Mutant of AddHeadersAfter: a header the response has already is kept.
AddHeadersAfterKeeps(h, payload, store) ==
    LET c == ConvertToAPIGatewayResponse(payload, store)
        apiGatewayResponse == c[1]
    IN IF c[2] # Nil THEN PhaseResult(payload, c[2], store)
       ELSE PhaseResult(
               [apiGatewayResponse EXCEPT !.Headers =
                   [k \in DOMAIN @ \cup DOMAIN h.headers |->
                       IF k \in DOMAIN @ THEN @[k] ELSE h.headers[k]]],
               Nil, store)

\* AddHeaders: After
AddHeadersAfter(h, payload, store) ==
    LET c == ConvertToAPIGatewayResponse(payload, store)
        apiGatewayResponse == c[1]
    IN IF c[2] # Nil THEN PhaseResult(payload, c[2], store)
       ELSE PhaseResult(
               [apiGatewayResponse EXCEPT !.Headers =
                   [k \in DOMAIN @ \cup DOMAIN h.headers |->
                       IF k \in DOMAIN h.headers THEN h.headers[k] ELSE @[k]]],
               Nil, store)

\* NormalizeHTTPRequestHeaders: Before, the results it can have
NormalizeHTTPRequestHeadersBefore(h, payload, store) ==
    IF payload.type = "APIGatewayProxyRequest"
    THEN {PhaseResult([payload EXCEPT !.Headers = headers, !.MultiValueHeaders = multi],
                      Nil, store) :
            headers \in Normalized(payload.Headers, h.canonical),
            multi \in Normalized(payload.MultiValueHeaders, h.canonical)}
    ELSE {PhaseResult(payload, Nil, store)}

\* ValidateBodyJSONSchema: Before
ValidateBodyJSONSchemaBefore(h, payload, store) ==
    LET body == GetBody(payload, store)
        validation == ValidateBytes(h.schema, body[1])
        errs == validation[1]
    IN IF body[2] # Nil THEN PhaseResult(payload, body[2], store)
       ELSE IF ~h.schema.valid
       THEN PhaseResult(payload, "invalid character 'o' in literal null (expecting 'u')", store)
       ELSE IF validation[2] # Nil THEN PhaseResult(payload, validation[2], store)
       ELSE IF Len(errs) > 0 THEN PhaseResult(payload, errs[1], store)
       ELSE PhaseResult(payload, Nil, store)

\* ValidateBodyJSONSchema: OnError
\* Mutant of ValidateBodyJSONSchemaOnError: the status of a bad request.
ValidateBodyJSONSchemaOnErrorBadRequest(h, payload, e, store) ==
    LET httpError == HTTPError(StatusBadRequest, e)
    IN [v |-> payload, e |-> httpError[2], input |-> store, httpError |-> httpError]

\* The error returned is the HTTPError's message; the HTTPError itself is kept
\* next to it.
ValidateBodyJSONSchemaOnError(h, payload, e, store) ==
    LET httpError == HTTPError(StatusUnprocessableEntity, e)
    IN [v |-> payload, e |-> httpError[2], input |-> store, httpError |-> httpError]

\* Mutant of ParseInputBefore: the error is the decoder's, the body not quoted.
ParseInputBeforeBareError(h, payload, store) ==
    LET b == GetBody(payload, store)
    IN IF b[2] # Nil THEN PhaseResult(payload, b[2], store)
       ELSE LET d == Decode(store[h.id], b[1], h.allowUnknownFields)
                decoded == [store EXCEPT ![h.id] = d[1]]
            IN IF d[2] # Nil THEN PhaseResult(payload, d[2], decoded)
               ELSE PhaseResult(InputPtr(h.id), Nil, decoded)

\* ParseInput: Before. decoder.Decode(input) writes through the pointer the
\* interceptor was built with, also when it ends in an error.
ParseInputBefore(h, payload, store) ==
    LET b == GetBody(payload, store)
    IN IF b[2] # Nil THEN PhaseResult(payload, b[2], store)
       ELSE LET d == Decode(store[h.id], b[1], h.allowUnknownFields)
                decoded == [store EXCEPT ![h.id] = d[1]]
            IN IF d[2] # Nil
               THEN PhaseResult(payload, "can't parse " \o GoQuote(b[1]) \o " - " \o d[2],
                                decoded)
               ELSE PhaseResult(InputPtr(h.id), Nil, decoded)

\* func simpleFunction(context context.Context, input Input) (*Output, error)
simpleFunctionBody(in) ==
    IF in.Value % 2 # 0 THEN <<NilOutput, "Value is not even">>
    ELSE <<Output("Function ran successfully!", in.Content), Nil>>

\* The handler newHandler built for simpleFunction is called with payload:
\* the payload is encoded, decoded into a new Input, and the function called.
simpleFunctionHandler(payload, store) ==
    LET payloadBytes == GetBytes(payload, store)
        event == Decode(ZeroInput, payloadBytes[1], TRUE)
    IN IF payloadBytes[2] # Nil
       THEN [args |-> <<>>, called |-> FALSE, raw |-> <<>>, ret |-> <<NilValue, payloadBytes[2]>>]
       ELSE IF event[2] # Nil
       THEN [args |-> <<>>, called |-> FALSE, raw |-> <<>>, ret |-> <<NilValue, event[2]>>]
       ELSE [args |-> <<ContextAt(Len(handler) + 1), event[1]>>, called |-> TRUE, raw |-> simpleFunctionBody(event[1]),
             ret |-> MapReturns(simpleFunctionBody(event[1]))]

\* ------------------------------------------------------------------ end-to-end chains
\* The request bodies of the tests, and one that leaves a field out.
EvenBody == JsonObject(<<Str("content", "Random content"), Num("value", 2)>>)
OddBody == JsonObject(<<Str("content", "Random content"), Num("value", 1)>>)
FooBody == JsonObject(<<Num("foo", 1)>>)
ContentBody == JsonObject(<<Str("content", "Other content")>>)
WrongTypeBody == JsonObject(<<Str("content", "Random content"), Str("value", "30")>>)
OutOfRangeBody == JsonObject(<<Str("content", "Random content"), Num("value", 20)>>)
Bodies == {EvenBody, OddBody, FooBody, ContentBody, WrongTypeBody, OutOfRangeBody}

\* const schema of the tests
schema ==
    Schema(<<Property("content", "string", FALSE, 0, 0),
             Property("value", "integer", TRUE, 0, 2)>>,
           <<"content", "value">>)

\* The headers of the tests, one of them a header the function sets too.
TestHeaders ==
    HeaderMap({<<"Content-Type", "application/json">>, <<"company-header1", "foo1">>,
               <<"Server", "gointercept">>})

\* The interceptors a chain is built from, as the i-th argument of With.
ApiInterceptors(i) ==
    {CreateAPIGatewayProxyResponse(i, c) :
        c \in {DefaultStatusCodes(StatusOK, StatusBadRequest), NoStatusCodes}}
    \cup {ParseInput(i, a) : a \in BOOLEAN}
    \cup {ValidateBodyJSONSchema(i, schema)}
    \cup {AddHeaders(i, TestHeaders)}

ApiLists(n) ==
    UNION {{a \in [1..k -> UNION {ApiInterceptors(i) : i \in 1..k}] :
               \A i \in 1..k : a[i] \in ApiInterceptors(i)} : k \in 0..n}

\* The results the Before of interceptor h can have.
BeforeOf(h, payload, store) ==
    CASE h.kind = "ParseInput" -> {ParseInputBefore(h, payload, store)}
      [] h.kind = "NormalizeHTTPRequestHeaders" ->
            NormalizeHTTPRequestHeadersBefore(h, payload, store)
      [] h.kind = "ValidateBodyJSONSchema" -> {ValidateBodyJSONSchemaBefore(h, payload, store)}

AfterOf(h, payload, store) ==
    CASE h.kind = "CreateAPIGatewayProxyResponse" ->
            CreateAPIGatewayProxyResponseAfter(h, payload, store)
      [] h.kind \in {"AddHeaders", "AddSecurityHeaders"} -> AddHeadersAfter(h, payload, store)

OnErrorOf(h, payload, e, store) ==
    CASE h.kind = "CreateAPIGatewayProxyResponse" ->
            CreateAPIGatewayProxyResponseOnError(h, payload, e, store)
      [] h.kind = "ValidateBodyJSONSchema" -> ValidateBodyJSONSchemaOnError(h, payload, e, store)

\* This(simpleFunction).With(adapters...): each ParseInput is given a new &Input{}.
CallWithApi ==
    /\ pc = "built"
    /\ \E adapters \in ApiLists(MaxApiLayers) :
        /\ handler' = With(adapters)
        /\ returned' = [d \in 1..Len(adapters) |-> NoReturn]
        /\ input' = [i \in 1..Len(adapters) |-> ZeroInput]
    /\ pc' = "idle"
    /\ UNCHANGED <<ctx, parked, handlerFunc, core, depth, response, err, trace, calls>>

\* The caller invokes the chain with (ctx, events.APIGatewayProxyRequest{Body: body}).
InvokeApi ==
    /\ pc = "idle"
    /\ \E body \in Bodies :
        Goto(handle(handler, 1, APIGatewayProxyRequest(body),
                    [d \in 1..Len(handler) |-> NoReturn]))
    /\ trace' = <<>>
    /\ calls' = <<>>
    /\ UNCHANGED <<ctx, input, parked, handlerFunc, core, handler>>

\* interceptor.Before(ctx, request), lines 31-36, for the interceptor's own Before
BeforeApi ==
    /\ pc = "Before"
    /\ \E out \in BeforeOf(handler[depth], response, input) :
          /\ trace' = Append(trace, Event(depth, "Before", response, Nil, out.v, out.e))
          /\ input' = out.input
          /\ IF out.e # Nil
             THEN Goto(processError(handler, depth, out.v, out.e, returned))
             ELSE Goto(handle(handler, depth + 1, out.v, returned))
    /\ UNCHANGED <<ctx, parked, handlerFunc, core, handler, calls>>

\* The innermost handler, adapted from simpleFunction, is called with (ctx, payload).
CoreApi ==
    /\ pc = "Core"
    /\ core.kind = "adapted"
    /\ LET out == simpleFunctionHandler(response, input)
       IN /\ calls' = IF out.called THEN Append(calls, out.args) ELSE calls
          /\ trace' = Append(trace, [id |-> 0, phase |-> "Core", inV |-> response, inE |-> Nil,
                                     outV |-> out.ret[1], outE |-> out.ret[2],
                                     called |-> out.called, raw |-> out.raw,
                                   ctx |-> ContextAt(depth)])
          /\ Goto(handleReturn(handler, depth - 1, out.ret[1], out.ret[2], returned))
    /\ UNCHANGED <<ctx, input, parked, handlerFunc, core, handler>>

\* interceptor.After(ctx, response), lines 43-48, for the interceptor's own After
AfterApi ==
    /\ pc = "After"
    /\ LET out == AfterOf(handler[depth], response, input)
       IN /\ trace' = Append(trace, Event(depth, "After", response, Nil, out.v, out.e))
          /\ input' = out.input
          /\ IF out.e # Nil
             THEN Goto(processError(handler, depth, out.v, out.e, returned))
             ELSE Goto(return(handler, depth, out.v, out.e, returned))
    /\ UNCHANGED <<ctx, parked, handlerFunc, core, handler, calls>>

\* interceptor.OnError(ctx, response, err), lines 54-57, for the interceptor's own OnError
OnErrorApi ==
    /\ pc = "OnError"
    /\ LET out == OnErrorOf(handler[depth], response, err, input)
           event == Event(depth, "OnError", response, err, out.v, out.e)
       IN /\ trace' = Append(trace, IF "httpError" \in DOMAIN out
                                     THEN event @@ [httpError |-> out.httpError]
                                     ELSE event)
          /\ input' = out.input
          /\ Goto(return(handler, depth, out.v, out.e, returned))
    /\ UNCHANGED <<ctx, parked, handlerFunc, core, handler, calls>>

NextApi ==
    CallThis \/ CallWithApi \/ InvokeApi \/ BeforeApi \/ CoreApi \/ AfterApi \/ OnErrorApi \/ Finish

SpecApi == Init /\ [][NextApi]_vars

\* ------------------------------------------------------------------ interceptors on their own
MaxOptions == 2

\* func() (interface{}, error): an application function that returns what it likes.
anyFunction == [kind |-> "func", in |-> <<>>, out |-> <<FALSE, TRUE>>]

\* What the application function returns.
UnitHeaders == [Server |-> "app"]
UnitValues ==
    {NilValue, NilOutput, Output("done", "text"), Unencodable,
     Bytes(<<"o", "k">>), Bytes(<<"<", "b", ">", "&">>),
     APIGatewayProxyResponse(0, "made", <<>>),
     APIGatewayProxyResponse(StatusUnprocessableEntity, "made", UnitHeaders)}

\* The options of the tests and, to tell the fields of one option apart and
\* an option from its default, some more.
Options ==
    {DnsPrefetchControl(FALSE), DnsPrefetchControl(TRUE), FrameGuard("SAMEORIGIN"),
     HidePoweredBy("PHP 4.2.0"), HttpStrictTransportSecurity(2, FALSE, FALSE),
     HttpStrictTransportSecurity(60, TRUE, FALSE), HttpStrictTransportSecurity(60, FALSE, TRUE),
     IENoOpen(FALSE), NoSniff(FALSE), ReferrerPolicy("same-origin")}

\* The interceptor under test, as the only argument of With.
UnitInterceptors ==
    {CreateAPIGatewayProxyResponse(1, c) :
        c \in {DefaultStatusCodes(StatusOK, StatusBadRequest), NoStatusCodes}}
    \cup {AddHeaders(1, headers) : headers \in {<<>>, TestHeaders}}
    \cup {AddSecurityHeaders(1, options) : options \in UNION {[1..k -> Options] : k \in 0..MaxOptions}}
    \cup {NormalizeHTTPRequestHeaders(1, canonical) : canonical \in BOOLEAN}
    \cup {ValidateBodyJSONSchema(1, rs) : rs \in {schema, NoSchema}}

\* The payloads the chain is invoked with: requests without headers, with
\* one, with the same header under two spellings, and a payload that is no
\* request.
UnitRequests ==
    {APIGatewayProxyRequest(EvenBody),
     APIGatewayProxyRequestWith(EvenBody,
        HeaderMap({<<<<"C", "o", "n", "t", "e", "n", "t", "-", "T", "y", "p", "e">>,
                     "application/json">>}),
        HeaderMap({<<<<"a", "c", "c", "e", "p", "t">>, <<"text/html", "text/plain">>>>})),
     APIGatewayProxyRequestWith(EvenBody,
        HeaderMap({<<<<"E", "t", "a", "g">>, "v1">>, <<<<"E", "T", "A", "G">>, "v2">>,
                   <<<<"e", "t", "a", "g">>, "v3">>}),
        <<>>),
     NilValue}

\* This(anyFunction).With(interceptor)
CallWithUnit ==
    /\ pc = "built"
    /\ \E h \in UnitInterceptors : handler' = With(<<h>>)
    /\ returned' = <<NoReturn>>
    /\ input' = <<ZeroInput>>
    /\ pc' = "idle"
    /\ UNCHANGED <<ctx, parked, handlerFunc, core, depth, response, err, trace, calls>>

\* The caller invokes the chain with (ctx, request).
InvokeUnit ==
    /\ pc = "idle"
    /\ \E request \in UnitRequests : Goto(handle(handler, 1, request, <<NoReturn>>))
    /\ trace' = <<>>
    /\ calls' = <<>>
    /\ UNCHANGED <<ctx, input, parked, handlerFunc, core, handler>>

\* The innermost handler, adapted from anyFunction: the function takes no
\* event, so the payload is not decoded, and its two returns are handed back.
CoreUnit ==
    /\ pc = "Core"
    /\ core.kind = "adapted"
    /\ ~TakesEvent(core)
    /\ \E v \in UnitValues, e \in {Nil, "function failed"} :
        LET ret == MapReturns(<<v, e>>)
        IN /\ calls' = Append(calls, CallArgs(core))
           /\ trace' = Append(trace, [id |-> 0, phase |-> "Core", inV |-> response, inE |-> Nil,
                                      outV |-> ret[1], outE |-> ret[2],
                                      called |-> TRUE, raw |-> <<v, e>>,
                                      ctx |-> ContextAt(depth)])
           /\ Goto(handleReturn(handler, depth - 1, ret[1], ret[2], returned))
    /\ UNCHANGED <<ctx, input, parked, handlerFunc, core, handler>>

InitUnit == handlerFunc = anyFunction /\ InitCommon

NextUnit ==
    CallThis \/ CallWithUnit \/ InvokeUnit \/ BeforeApi \/ CoreUnit \/ AfterApi
        \/ OnErrorApi \/ Finish

SpecUnit == InitUnit /\ [][NextUnit]_vars

\* ------------------------------------------------------------------ two invocations
MaxConcLayers == 2

\* What one call of the composed handler holds: the closure it entered (the
\* chain) and the locals of its frames.
Frame ==
    [handler |-> handler, pc |-> pc, depth |-> depth, response |-> response, err |-> err,
     trace |-> trace, returned |-> returned, calls |-> calls]

Resume(f) ==
    /\ handler' = f.handler
    /\ pc' = f.pc
    /\ depth' = f.depth
    /\ response' = f.response
    /\ err' = f.err
    /\ trace' = f.trace
    /\ returned' = f.returned
    /\ calls' = f.calls

\* This(handlerFunc).With(adapters...), for the chain that is invoked concurrently.
CallWithConc ==
    /\ pc = "built"
    /\ \E adapters \in AdapterLists(MaxConcLayers) :
        /\ handler' = With(adapters)
        /\ returned' = [d \in 1..Len(adapters) |-> NoReturn]
    /\ pc' = "idle"
    /\ UNCHANGED <<ctx, input, parked, handlerFunc, core, depth, response, err, trace, calls>>

\* The caller starts a second goroutine that will invoke the same chain.
Go ==
    /\ pc = "idle"
    /\ parked = NoInvocation
    /\ parked' = Frame
    /\ UNCHANGED <<ctx, input, handlerFunc, core, handler, pc, depth, response, err, trace,
                   returned, calls>>

\* Mutant of Switch: response and err are not locals of the call but shared.
SwitchSharedResponse ==
    /\ parked # NoInvocation
    /\ parked' = Frame
    /\ Resume([parked EXCEPT !.response = response, !.err = err])
    /\ UNCHANGED <<ctx, input, handlerFunc, core>>

\* The scheduler runs the other goroutine: the locals of lines 27-29 belong to
\* the call, and only the builder is common to both.
Switch ==
    /\ parked # NoInvocation
    /\ parked' = Frame
    /\ Resume(parked)
    /\ UNCHANGED <<ctx, input, handlerFunc, core>>

\* Whenever a phase or the core was called with the same arguments in the two
\* invocations, it returned the same.
Functional(t, u) ==
    \A i \in DOMAIN t, j \in DOMAIN u :
        (t[i].id = u[j].id /\ t[i].phase = u[j].phase
            /\ t[i].inV = u[j].inV /\ t[i].inE = u[j].inE) => t[i] = u[j]

\* The interceptors and the application function of the concurrently invoked
\* chain are functions of their arguments.
PhasesAreFunctions == parked # NoInvocation => Functional(trace, parked.trace)

BeforePure == Before /\ PhasesAreFunctions'
CorePure == Core /\ PhasesAreFunctions'
AfterPure == After /\ PhasesAreFunctions'
OnErrorPure == OnError /\ PhasesAreFunctions'

NextConc ==
    CallThis \/ CallWithConc \/ Go \/ Switch
        \/ Invoke \/ BeforePure \/ CorePure \/ AfterPure \/ OnErrorPure \/ Finish

SpecConc == Init /\ [][NextConc]_vars

\* ------------------------------------------------------------------ two chains
MaxBuildLayers == 1

\* The interceptor lists of a second call of With: other interceptors than
\* those of the first call, with the same or other phases.
SecondLists(n) ==
    {[i \in DOMAIN a |-> [a[i] EXCEPT !.id = n + i]] : a \in AdapterLists(n)}

\* builder := This(handlerFunc); first := builder.With(adapters...)
CallWithBuild ==
    /\ pc = "built"
    /\ \E adapters \in AdapterLists(MaxBuildLayers) :
        /\ handler' = With(adapters)
        /\ returned' = [d \in 1..Len(adapters) |-> NoReturn]
    /\ pc' = "idle"
    /\ UNCHANGED <<ctx, input, parked, handlerFunc, core, depth, response, err, trace, calls>>

\* Mutant of CallWithAgain: With has stored the chain it built in the builder,
\* so the next With wraps that chain.
CallWithAgainOnChain ==
    /\ pc = "idle"
    /\ parked = NoInvocation
    /\ parked' = Frame
    /\ \E adapters \in SecondLists(MaxBuildLayers) :
        /\ handler' = With(adapters) \o handler
        /\ returned' = [d \in 1..(Len(adapters) + Len(handler)) |-> NoReturn]
    /\ UNCHANGED <<ctx, input, handlerFunc, core, pc, depth, response, err, trace, calls>>

\* second := builder.With(adapters...): the caller keeps the first chain.
CallWithAgain ==
    /\ pc = "idle"
    /\ parked = NoInvocation
    /\ parked' = Frame
    /\ \E adapters \in SecondLists(MaxBuildLayers) :
        /\ handler' = With(adapters)
        /\ returned' = [d \in 1..Len(adapters) |-> NoReturn]
    /\ UNCHANGED <<ctx, input, handlerFunc, core, pc, depth, response, err, trace, calls>>

\* Between two invocations the caller turns to its other chain.
SwitchChain ==
    /\ pc = "idle"
    /\ Switch

NextBuild ==
    CallThis \/ CallWithBuild \/ CallWithAgain \/ SwitchChain
        \/ Invoke \/ Before \/ Core \/ After \/ OnError \/ Finish

SpecBuild == Init /\ [][NextBuild]_vars

\* ------------------------------------------------------------------ contexts
Contexts == {Ctx, "ctx with deadline"}

\* The caller invokes the composed handler with a context of its choice.
InvokeCtx ==
    /\ pc = "idle"
    /\ ctx' \in Contexts
    /\ Goto(handle(handler, 1, Request, [d \in 1..Len(handler) |-> NoReturn]))
    /\ trace' = <<>>
    /\ calls' = <<>>
    /\ UNCHANGED <<input, parked, handlerFunc, core, handler>>

NextCtx ==
    CallThis \/ CallWithConc \/ InvokeCtx \/ Before \/ Core \/ After \/ OnError \/ Finish

SpecCtx == Init /\ [][NextCtx]_vars

\* The same, where a phase or a function that has been called returns: each is
\* a synchronous call, and handle does nothing else between two of them.
SpecLive ==
    /\ Init
    /\ [][NextCtx]_vars
    /\ WF_vars(Before) /\ WF_vars(Core) /\ WF_vars(After) /\ WF_vars(OnError)

\* An invalid application function in a chain: one function for each error
\* newHandler can give: nil, no func, three parameters, two parameters without
\* a Context first, three returns, two returns without an error last, one
\* return that is no error.
InvalidHandlerFuncs ==
    {[kind |-> "nil"], [kind |-> "notfunc"],
     [kind |-> "func", in |-> <<TRUE, FALSE, FALSE>>, out |-> <<TRUE>>],
     [kind |-> "func", in |-> <<FALSE, FALSE>>, out |-> <<TRUE>>],
     [kind |-> "func", in |-> <<>>, out |-> <<FALSE, FALSE, TRUE>>],
     [kind |-> "func", in |-> <<>>, out |-> <<FALSE, FALSE>>],
     [kind |-> "func", in |-> <<>>, out |-> <<FALSE>>]}

InitInvalid == handlerFunc \in InvalidHandlerFuncs /\ InitCommon

SpecInvalid == InitInvalid /\ [][NextCtx]_vars

\* ------------------------------------------------------------------ reading the trace
\* The positions of the trace where phase `phase` of interceptor `id` was called.
Calls(phase, id) == {k \in DOMAIN trace : trace[k].phase = phase /\ trace[k].id = id}
Ran(phase, id) == Calls(phase, id) # {}
Failed(k) == trace[k].outE # Nil
Out(k) == <<trace[k].outV, trace[k].outE>>
In(k) == <<trace[k].inV, trace[k].inE>>
\* The layers of the chain, and the layers inside layer d.
Layers == DOMAIN handler
HasReturned(d) == returned[d] # NoReturn

\* ------------------------------------------------------------------ C1
\* The order With(I1 .. In) promises: I1.Before .. In.Before, core, In.After .. I1.After.
OnionOrder(n) ==
    [k \in 1..(2 * n + 1) |->
        IF k <= n THEN <<k, "Before">>
        ELSE IF k = n + 1 THEN <<0, "Core">>
        ELSE <<2 * n + 2 - k, "After">>]

AllBeforeAfter == \A d \in Layers : handler[d].Before /\ handler[d].After
NoFailure == \A k \in DOMAIN trace : ~Failed(k)

\* C1: when every interceptor given to With has a Before and an After and no
\* phase and not the core returns an error, the calls of one invocation are
\* I1.Before, ..., In.Before, core, In.After, ..., I1.After, each once, in
\* that order: at every moment the calls made so far are the start of that
\* sequence, and the finished invocation has made all of them.
C1_OnionOrdering ==
    (pc \notin {"new", "built"} /\ AllBeforeAfter /\ NoFailure) =>
        /\ Len(trace) <= 2 * Len(handler) + 1
        /\ \A k \in DOMAIN trace :
              <<trace[k].id, trace[k].phase>> = OnionOrder(Len(handler))[k]
        /\ pc = "done" => Len(trace) = 2 * Len(handler) + 1

C1_Witness ==
    /\ pc = "done"
    /\ Len(handler) = MaxLayers
    /\ AllBeforeAfter
    /\ NoFailure
    /\ Len(trace) = 2 * MaxLayers + 1

\* ------------------------------------------------------------------ C2
\* C2: once the Before of the interceptor at list position i has returned an
\* error, the invocation holds no call of any phase of an interceptor listed
\* after i (a layer inside layer i), no call of the core and no call of i's
\* own After; every OnError called is that of i or of an interceptor listed
\* before i, and whatever is called after the failure is an OnError of i or an
\* enclosing layer, or the After of an enclosing layer.
C2_BeforeShortCircuit ==
    \A k \in DOMAIN trace :
        (trace[k].phase = "Before" /\ Failed(k)) =>
            LET i == trace[k].id
            IN /\ \A j \in DOMAIN trace :
                    /\ trace[j].phase # "Core"
                    /\ trace[j].id <= i
                    /\ ~(trace[j].id = i /\ trace[j].phase = "After")
                    /\ trace[j].phase = "OnError" => trace[j].id <= i
                    /\ j > k => \/ trace[j].phase = "OnError"
                                \/ trace[j].phase = "After" /\ trace[j].id < i
               /\ pc \notin {"Core", "Before"}
               /\ pc \in {"After", "OnError"} => handler[depth].id <= i
               /\ pc = "After" => handler[depth].id < i

C2_Witness ==
    /\ pc = "done"
    /\ Len(handler) = 3
    /\ \E k \in Calls("Before", 2) : Failed(k)
    /\ Ran("OnError", 2)
    /\ Ran("OnError", 1)
    /\ handler[3].After /\ handler[3].OnError /\ handler[2].After

\* ------------------------------------------------------------------ C3
\* The depth at which the interceptor listed at position id sits in the chain.
DepthOf(id) == CHOOSE d \in Layers : handler[d].id = id
CoreRan == Ran("Core", 0)
CoreOut == Out(CHOOSE k \in Calls("Core", 0) : TRUE)
\* What layer d's inner handler returned to it.
InnerHasReturned(d) == IF d = Len(handler) THEN CoreRan ELSE HasReturned(d + 1)
InnerPair(d) == IF d = Len(handler) THEN CoreOut ELSE returned[d + 1]
BBeforeFailed == Len(handler) = 3 /\ \E k \in Calls("Before", 2) : Failed(k)
BAbsorbed == \E k \in Calls("OnError", 2) : ~Failed(k)

\* C3 as stated: for [A, B, C], once B.Before has returned an error none of
\* C.After, B.After and A.After is called, whatever the OnError handlers do.
C3_NoAfterAtAll ==
    BBeforeFailed => ~Ran("After", 3) /\ ~Ran("After", 2) /\ ~Ran("After", 1)

\* C3, amended: for [A, B, C], once B.Before has returned an error, C.Before,
\* the core, C.After and B.After are never called; A.After is called only
\* after B.OnError has returned a nil error, and in that case, when A has an
\* After, it is called before the invocation ends.
C3_AfterOnlyOnceAbsorbed ==
    BBeforeFailed =>
        /\ ~Ran("Before", 3) /\ ~CoreRan
        /\ ~Ran("After", 3) /\ ~Ran("After", 2)
        /\ Ran("After", 1) => BAbsorbed
        /\ (pc = "done" /\ BAbsorbed /\ handler[DepthOf(1)].After) => Ran("After", 1)

C3_Witness ==
    /\ pc = "done"
    /\ BBeforeFailed
    /\ BAbsorbed
    /\ Ran("After", 1)
    /\ handler[3].After /\ handler[2].After

\* ------------------------------------------------------------------ C4
\* The depth at which the pair returned by call k is looked at: a Before or an
\* After fails inside its own layer, an OnError's result and the core's result
\* go to the layer that called them.
OfferedAt(k) ==
    IF trace[k].phase = "Core" THEN Len(handler)
    ELSE IF trace[k].phase = "OnError" THEN DepthOf(trace[k].id) - 1
    ELSE DepthOf(trace[k].id)
\* The innermost layer at depth L or outside it that has an OnError; 0 when none has.
Catcher(L) ==
    IF \E j \in 1..L : handler[j].OnError
    THEN CHOOSE j \in 1..L : handler[j].OnError /\ \A i \in (j + 1)..L : ~handler[i].OnError
    ELSE 0

\* C4: an error returned by the core or by a phase of layer i goes to the
\* OnError of the innermost layer, from i outward, that has one (for the
\* result of an OnError: from the enclosing layer outward), which receives the
\* very (value, error) pair; an OnError is called for nothing else, so the
\* OnErrors run from inner to outer, each on the pair the layer below returned;
\* after an OnError that returned nil no OnError follows it directly; and an
\* error no remaining layer has an OnError for is what the caller receives.
C4_Escalation ==
    /\ \A k \in DOMAIN trace :
          Failed(k) =>
              LET J == Catcher(OfferedAt(k))
              IN IF J = 0
                 THEN /\ k = Len(trace)
                      /\ pc \in {"done", "idle"}
                      /\ <<response, err>> = Out(k)
                 ELSE IF k = Len(trace)
                      THEN pc = "OnError" /\ depth = J /\ <<response, err>> = Out(k)
                      ELSE /\ trace[k + 1].phase = "OnError"
                           /\ trace[k + 1].id = handler[J].id
                           /\ In(k + 1) = Out(k)
    /\ \A k \in DOMAIN trace :
          trace[k].phase = "OnError" =>
              /\ k > 1
              /\ Failed(k - 1)
              /\ In(k) = Out(k - 1)
              /\ trace[k - 1].phase = "OnError" => trace[k].id < trace[k - 1].id
              /\ (~Failed(k) /\ k < Len(trace)) => trace[k + 1].phase # "OnError"
    /\ pc = "OnError" => trace # <<>> /\ Failed(Len(trace))
    /\ (pc = "done" /\ err # Nil) => trace # <<>> /\ Out(Len(trace)) = <<response, err>>

C4_Witness ==
    /\ pc = "done"
    /\ Len(handler) = 3
    /\ ~handler[2].OnError
    /\ CoreRan /\ CoreOut[2] # Nil
    /\ \E k \in Calls("OnError", 3) : Failed(k)
    /\ \E k \in Calls("OnError", 1) : Failed(k)
    /\ err # Nil

\* ------------------------------------------------------------------ C5
\* The calls where an OnError absorbed an error inside an enclosing layer.
Absorptions ==
    {k \in DOMAIN trace : trace[k].phase = "OnError" /\ ~Failed(k) /\ DepthOf(trace[k].id) > 1}
\* The layer directly enclosing the layer whose OnError was call k.
Encloser(k) == DepthOf(trace[k].id) - 1

\* The part of C5 that is about what happens next: A.OnError is not called for
\* the absorbed result, and A.After, when A has one, is called with v.
AbsorbedIsSuccess(k) ==
    LET A == Encloser(k)
    IN /\ ~(pc = "OnError" /\ k = Len(trace))
       /\ k < Len(trace) => trace[k + 1].phase # "OnError"
       /\ handler[A].After =>
            IF k = Len(trace)
            THEN pc = "After" /\ depth = A /\ response = trace[k].outV
            ELSE /\ trace[k + 1].phase = "After"
                 /\ trace[k + 1].id = handler[A].id
                 /\ trace[k + 1].inV = trace[k].outV

\* C5 as stated: when B.OnError returns (v, nil), the enclosing layer A does
\* not call its OnError for it, calls its After (if any) with v, and the
\* result of the chain (A being the outermost layer) is whatever A.After
\* returned, or (v, nil) when A has no After.
C5_ResultIsWhatAfterReturns ==
    \A k \in Absorptions :
        /\ AbsorbedIsSuccess(k)
        /\ (Encloser(k) = 1 /\ pc = "done") =>
              <<response, err>> =
                  IF handler[1].After THEN Out(k + 1) ELSE <<trace[k].outV, Nil>>

\* C5, amended: when B.OnError returns (v, nil), the enclosing layer A does
\* not call its OnError for it and calls its After (if any) with v; A returns
\* (v, nil) when it has no After, what A.After returned when that holds a nil
\* error or A has no OnError, and otherwise what A.OnError returned for the
\* pair A.After returned; with A outermost that is the result of the chain.
C5_ErrorAbsorption ==
    \A k \in Absorptions :
        LET A == Encloser(k)
        IN /\ AbsorbedIsSuccess(k)
           /\ HasReturned(A) =>
                /\ returned[A] =
                      IF ~handler[A].After THEN <<trace[k].outV, Nil>>
                      ELSE IF ~Failed(k + 1) \/ ~handler[A].OnError THEN Out(k + 1)
                      ELSE Out(k + 2)
                /\ (handler[A].After /\ Failed(k + 1) /\ handler[A].OnError) =>
                      /\ trace[k + 2].phase = "OnError"
                      /\ trace[k + 2].id = handler[A].id
                      /\ In(k + 2) = Out(k + 1)
                /\ (A = 1 /\ pc = "done") => <<response, err>> = returned[A]

C5_Witness ==
    /\ pc = "done"
    /\ Len(handler) = 2
    /\ CoreRan /\ CoreOut[2] # Nil
    /\ \E k \in Absorptions :
          /\ trace[k].id = 2
          /\ k < Len(trace)
          /\ trace[k + 1].phase = "After"
          /\ ~Failed(k + 1)
          /\ <<response, err>> = Out(k + 1)

\* ------------------------------------------------------------------ C6
FailedCalls(phase, id) == {k \in Calls(phase, id) : Failed(k)}
\* The pair the failing step of layer d produced: its Before, else its inner
\* handler, else its After; the empty set when no step of the layer failed.
FailingPairs(d) ==
    LET id == handler[d].id
    IN IF FailedCalls("Before", id) # {} THEN {Out(k) : k \in FailedCalls("Before", id)}
       ELSE IF InnerHasReturned(d) /\ InnerPair(d)[2] # Nil THEN {InnerPair(d)}
       ELSE {Out(k) : k \in FailedCalls("After", id)}

\* C6: a layer whose interceptor has no OnError, when one of its steps (its
\* Before, its inner handler, its After) returned an error, returns to its
\* caller exactly the (value, error) pair of that step, so the error is still
\* non-nil and the value is the step's value.
C6_PassThroughWithoutOnError ==
    \A d \in Layers :
        (~handler[d].OnError /\ HasReturned(d) /\ FailingPairs(d) # {}) =>
            /\ FailingPairs(d) = {returned[d]}
            /\ returned[d][2] # Nil

C6_Witness ==
    /\ pc = "done"
    /\ Len(handler) = 2
    /\ ~handler[1].OnError /\ ~handler[2].OnError
    /\ CoreRan /\ CoreOut = <<"v:app", "e:app">>
    /\ returned[2] = CoreOut /\ returned[1] = CoreOut
    /\ <<response, err>> = CoreOut

\* ------------------------------------------------------------------ C7
\* C7: the pair a layer's OnError returned is the pair the layer returns, value
\* and error alike; what runs next sees that pair: after a non-nil error only
\* an OnError of an enclosing layer, which receives the new error and value in
\* place of the original ones, after a nil error only an After, which receives
\* the value; from the outermost layer the pair goes to the caller.
C7_OnErrorVerbatim ==
    \A d \in Layers :
        \A k \in Calls("OnError", handler[d].id) :
            /\ returned[d] = Out(k)
            /\ d = 1 => pc \in {"done", "idle"} /\ <<response, err>> = Out(k)
            /\ k < Len(trace) =>
                  /\ trace[k + 1].phase = (IF Failed(k) THEN "OnError" ELSE "After")
                  /\ trace[k + 1].inV = trace[k].outV
                  /\ Failed(k) => trace[k + 1].inE = trace[k].outE

C7_Witness ==
    /\ pc = "done"
    /\ Len(handler) = 2
    /\ \E k \in Calls("OnError", 2) :
          /\ trace[k].outE = ErrorOf("OnError", 2)
          /\ trace[k].inE # trace[k].outE
          /\ k < Len(trace)
          /\ trace[k + 1].phase = "OnError"
          /\ ~Failed(k + 1)
    /\ err = Nil

\* ------------------------------------------------------------------ C8
\* C8: a layer that has an OnError calls it exactly when its own Before, its
\* inner handler or its own After has returned a non-nil error, at most once,
\* and with the value and the error that step returned.
C8_OnErrorExactlyOnFailure ==
    \A d \in Layers :
        handler[d].OnError =>
            LET id == handler[d].id
                pending == pc = "OnError" /\ depth = d
            IN /\ (Ran("OnError", id) \/ pending) <=> FailingPairs(d) # {}
               /\ Cardinality(Calls("OnError", id)) <= 1
               /\ ~(Ran("OnError", id) /\ pending)
               /\ \A k \in Calls("OnError", id) : FailingPairs(d) = {In(k)}
               /\ pending => FailingPairs(d) = {<<response, err>>}

C8_Witness ==
    /\ pc = "done"
    /\ Len(handler) = 2
    /\ \E a \in FailedCalls("After", 2) :
          /\ a < Len(trace)
          /\ trace[a + 1].phase = "OnError"
          /\ trace[a + 1].id = 2
          /\ In(a + 1) = Out(a)

\* ------------------------------------------------------------------ C9
\* The shape rules as the specification words them.
ArgsAccepted(f) == NumIn(f) <= 2 /\ (NumIn(f) = 2 => f.in[1])
ReturnsAccepted(f) ==
    /\ NumOut(f) <= 2
    /\ NumOut(f) = 1 => f.out[1]
    /\ NumOut(f) = 2 => f.out[2]
ArgumentErrors == {TooManyArguments, InvalidFirstArgument}
ReturnErrors == {TooManyReturnValues, InvalidSingleReturn, InvalidSecondReturn}
Rejected(e) == core = errorHandler(e)

\* C9: a func with more than 2 parameters is rejected with TooManyArguments,
\* one with 2 parameters whose first is not a Context with
\* InvalidFirstArgument; a func with 0, 1 or 2 parameters (the first of two a
\* Context) gets no argument error and, its returns being valid, is adapted;
\* a single parameter is passed the context when it is a Context, and the
\* decoded input value otherwise (and only then can decoding fail).
C9_ArgumentShape ==
    (pc # "new" /\ handlerFunc.kind = "func") =>
        LET f == handlerFunc
        IN /\ NumIn(f) > 2 => Rejected(TooManyArguments)
           /\ (NumIn(f) = 2 /\ ~f.in[1]) => Rejected(InvalidFirstArgument)
           /\ ArgsAccepted(f) =>
                /\ \A e \in ArgumentErrors : ~Rejected(e)
                /\ ReturnsAccepted(f) => core.kind = "adapted"
           /\ (NumIn(f) = 1 /\ ArgsAccepted(f) /\ ReturnsAccepted(f)) =>
                /\ \A i \in DOMAIN calls :
                      calls[i] = IF f.in[1] THEN <<Ctx>> ELSE <<"event">>
                /\ f.in[1] => err \notin {EncodeError, DecodeError}
                /\ (pc = "done" /\ err \notin {EncodeError, DecodeError}) => Len(calls) = 1

C9_Witness ==
    /\ pc = "done"
    /\ handlerFunc.kind = "func"
    /\ NumIn(handlerFunc) = 1
    /\ ~handlerFunc.in[1]
    /\ calls = << <<"event">> >>

\* ------------------------------------------------------------------ C10
\* C10: for a func whose parameters are accepted, more than 2 return values
\* are rejected with TooManyReturnValues, a single return value that is no
\* error with InvalidSingleReturn, two return values whose second is no error
\* with InvalidSecondReturn; every other func is adapted, and invoking it
\* calls the application function unless the payload cannot be decoded.
C10_ReturnShape ==
    (pc # "new" /\ handlerFunc.kind = "func" /\ ArgsAccepted(handlerFunc)) =>
        LET f == handlerFunc
        IN /\ NumOut(f) > 2 => Rejected(TooManyReturnValues)
           /\ (NumOut(f) = 1 /\ ~f.out[1]) => Rejected(InvalidSingleReturn)
           /\ (NumOut(f) = 2 /\ ~f.out[2]) => Rejected(InvalidSecondReturn)
           /\ ReturnsAccepted(f) =>
                /\ core.kind = "adapted"
                /\ (pc = "done" /\ err \notin {EncodeError, DecodeError}) => Len(calls) = 1
           /\ ~ReturnsAccepted(f) =>
                /\ calls = <<>>
                /\ pc = "done" => response = Nil /\ err \in ReturnErrors

C10_Witness ==
    /\ pc = "done"
    /\ handlerFunc.kind = "func"
    /\ ArgsAccepted(handlerFunc)
    /\ NumOut(handlerFunc) = 2
    /\ ~handlerFunc.out[2]
    /\ err = InvalidSecondReturn

\* ------------------------------------------------------------------ C11
\* The handlers the adapter does not accept.
InvalidHandler(f) == f.kind # "func" \/ ~ArgsAccepted(f) \/ ~ReturnsAccepted(f)
CoreCalls == {k \in DOMAIN trace : trace[k].phase = "Core"}

\* C11: This never fails: it can be called with a nil handler, a handler that
\* is no func and a func of an invalid shape, and the handler it builds for
\* these returns (nil, the validation error found by This) on every
\* invocation, whatever the payload, and never calls the application function.
C11_InvalidHandlerAlwaysErrors ==
    /\ pc = "new" => ENABLED CallThis
    /\ (pc # "new" /\ InvalidHandler(handlerFunc)) =>
        /\ core.kind = "errorHandler"
        /\ core.e # Nil
        /\ handlerFunc.kind = "nil" => core.e = HandlerIsNil
        /\ handlerFunc.kind = "notfunc" => core.e = InvalidHandlerKind
        /\ calls = <<>>
        /\ \A k \in CoreCalls : ~trace[k].called /\ Out(k) = <<Nil, core.e>>
        /\ pc = "done" => response = Nil /\ err = core.e

C11_Witness ==
    /\ pc = "done"
    /\ handlerFunc.kind = "nil"
    /\ trace # <<>>
    /\ trace[1].inV = Nil
    /\ err = HandlerIsNil

\* ------------------------------------------------------------------ C12
ThreeArguments == handlerFunc.kind = "func" /\ NumIn(handlerFunc) = 3

\* C12 as the specification words it: a func with 3 parameters is rejected
\* when This is called, and no invocation of the handler built for it is
\* where the caller meets TooManyArguments.
C12_NeverAtInvocation ==
    ThreeArguments =>
        /\ pc # "new" => core = [kind |-> "errorHandler", e |-> TooManyArguments]
        /\ ~(pc = "done" /\ err = TooManyArguments)

\* C12: a func with 3 parameters is validated once, when This is called: from
\* then on the builder holds the handler that returns TooManyArguments, before
\* any invocation. This reports nothing, so the caller meets the rejection at
\* invocation time: every invocation returns (nil, TooManyArguments) and the
\* application function is never called.
C12_ValidatedOnceSeenAtInvocation ==
    ThreeArguments =>
        /\ pc # "new" => core = [kind |-> "errorHandler", e |-> TooManyArguments]
        /\ calls = <<>>
        /\ \A k \in CoreCalls : ~trace[k].called /\ Out(k) = <<Nil, TooManyArguments>>
        /\ pc = "done" => response = Nil /\ err = TooManyArguments

C12_Witness ==
    /\ ThreeArguments
    /\ pc = "done"
    /\ Len(trace) = 1
    /\ ~trace[1].called
    /\ err = TooManyArguments

\* ------------------------------------------------------------------ C13
\* The calls of the innermost handler that reached the application function.
AppCalls == {k \in CoreCalls : trace[k].called}

\* C13: when the adapted handler has called the application function, its
\* error result is the function's last return value if that is a non-nil
\* error and nil otherwise, and its value result is the function's first
\* return value if the function has two return values and nil otherwise; a
\* value returned next to a non-nil error is delivered with it.
C13_ReturnMapping ==
    \A k \in AppCalls :
        LET r == trace[k].raw
            n == NumOut(handlerFunc)
        IN /\ Len(r) = n
           /\ trace[k].outE = IF n > 0 /\ r[n] # Nil THEN r[n] ELSE Nil
           /\ trace[k].outV = IF n = 2 THEN r[1] ELSE Nil
           /\ (n = 2 /\ r[1] # Nil /\ r[2] # Nil) => Out(k) = <<r[1], r[2]>>
           /\ pc = "done" => <<response, err>> = Out(k)

C13_Witness ==
    /\ pc = "done"
    /\ AppCalls # {}
    /\ \A k \in AppCalls : trace[k].raw = <<"v:app", "e:app">>
    /\ response = "v:app"
    /\ err = "e:app"

\* ------------------------------------------------------------------ C14
\* The application function declares an input value: a parameter that is no Context.
DeclaresInput(f) == NumIn(f) = 2 \/ (NumIn(f) = 1 /\ ~f.in[1])

\* C14: for an adapted handler, a payload that cannot be encoded or decoded
\* into the declared input type makes the invocation return (nil, non-nil
\* error) without calling the application function, and this can only happen
\* when the function declares an input value; a function that declares none
\* is called in every invocation, whatever the payload.
C14_DecodeFailureIsolation ==
    (pc # "new" /\ ~InvalidHandler(handlerFunc)) =>
        \A k \in CoreCalls :
            /\ ~trace[k].called =>
                /\ DeclaresInput(handlerFunc)
                /\ trace[k].outV = Nil
                /\ trace[k].outE # Nil
                /\ calls = <<>>
                /\ pc = "done" => response = Nil /\ err # Nil
            /\ ~DeclaresInput(handlerFunc) =>
                /\ trace[k].called
                /\ Len(calls) = 1
                /\ \A i \in DOMAIN calls[1] : calls[1][i] = Ctx

C14_Witness ==
    /\ pc = "done"
    /\ ~InvalidHandler(handlerFunc)
    /\ DeclaresInput(handlerFunc)
    /\ trace[1].inV = Request
    /\ ~trace[1].called
    /\ calls = <<>>
    /\ err = DecodeError

\* ------------------------------------------------------------------ C15
\* The calls of the adapted handler that stopped at a payload it could not decode.
DecodeFailed == {k \in CoreCalls : core.kind = "adapted" /\ ~trace[k].called}

TestChains ==
    {<<CreateAPIGatewayProxyResponse(1, DefaultStatusCodes(StatusOK, StatusBadRequest)),
       ParseInput(2, a)>> : a \in BOOLEAN}
\* The body of the request the caller made, once a phase has been called with it.
RequestBody == trace[1].inV.Body
HasMember(body, name) == \E i \in DOMAIN body.members : body.members[i].name = name
MemberNum(body, name) ==
    LET i == CHOOSE i \in DOMAIN body.members : body.members[i].name = name
    IN body.members[i].num
\* The caller has the result of an invocation of the tests' chain.
TestChainDone == pc = "done" /\ handler \in TestChains /\ trace # <<>>

C17_CoreErrorIs422 ==
    TestChainDone =>
        \A k \in CoreCalls :
            Failed(k) => /\ err = Nil
                         /\ response.Body = trace[k].outE
                         /\ response.StatusCode = StatusUnprocessableEntity

\* ------------------------------------------------------------------ C18
UnknownMembers(body) ==
    {i \in DOMAIN body.members : body.members[i].name \notin {"content", "value"}}
\* The calls of a ParseInput that rejects unknown fields with a request whose
\* body has one.
UnknownFieldParses ==
    {k \in DOMAIN trace :
        /\ trace[k].phase = "Before"
        /\ handler[trace[k].id].kind = "ParseInput"
        /\ ~handler[trace[k].id].allowUnknownFields
        /\ trace[k].inV.type = "APIGatewayProxyRequest"
        /\ UnknownMembers(trace[k].inV.Body) # {}}
Enclosed(d) == \E o \in 1..(d - 1) : handler[o].kind = "CreateAPIGatewayProxyResponse"

\* C18: when a ParseInput that rejects unknown fields is called with a request
\* whose body has an unknown field, its Before fails with a message that
\* quotes the body's raw text, simpleFunction is not called in that
\* invocation, and under an enclosing CreateAPIGatewayProxyResponse the chain
\* returns a nil error and a response whose Body is that message.
C18_ParseFailureIsolation ==
    pc \in {"Before", "Core", "After", "OnError", "done"} =>
        \A k \in UnknownFieldParses :
            LET body == trace[k].inV.Body
                first == CHOOSE i \in UnknownMembers(body) :
                             \A j \in UnknownMembers(body) : i <= j
                message == "can't parse \"" \o Text(body, "\\\"", " ") \o "\" - json: unknown field \""
                               \o body.members[first].name \o "\""
            IN /\ trace[k].outE = message
               /\ CoreCalls = {}
               /\ calls = <<>>
               /\ pc # "Core"
               /\ (pc = "done" /\ Enclosed(trace[k].id)) =>
                      /\ err = Nil
                      /\ response.type = "APIGatewayProxyResponse"
                      /\ response.Body = message

C18_Witness ==
    /\ TestChainDone
    /\ UnknownFieldParses # {}
    /\ RequestBody = FooBody
    /\ calls = <<>>
    /\ err = Nil
    /\ response.Body = "can't parse \"{\\\"foo\\\": 1}\" - json: unknown field \"foo\""

\* ------------------------------------------------------------------ C19
\* The step is a call of With: the first one, or a later one on the same builder.
FirstWith == pc = "built" /\ pc' = "idle"
LaterWith == parked = NoInvocation /\ parked' # NoInvocation
\* The step is a call of a phase or of the application function.
PhaseCall == Len(trace') = Len(trace) + 1
LastCall == trace'[Len(trace')]
\* The interceptors the first call of With was given, and those of the second.
GivenTo(first) ==
    IF first THEN UNION {Interceptors(i) : i \in 1..MaxBuildLayers}
    ELSE UNION {Interceptors(MaxBuildLayers + i) : i \in 1..MaxBuildLayers}

\* C19: a call of With calls no phase and no application function and leaves
\* the builder as it was; a later call on the same builder leaves the chain
\* built before as it was and builds a chain of the interceptors it was given,
\* and of no other; and every phase an invocation of either chain calls is a
\* phase of that chain, the other chain's frames staying as they were.
C19_BuildingIsPure ==
    [][/\ pc # "new" => core' = core
       /\ (FirstWith \/ LaterWith) =>
             /\ trace' = trace /\ trace = <<>>
             /\ calls' = calls /\ calls = <<>>
             /\ Len(handler') <= MaxBuildLayers
             /\ \A d \in DOMAIN handler' : handler'[d] \in GivenTo(FirstWith)
       /\ LaterWith => parked'.handler = handler /\ parked'.pc = "idle"
       /\ PhaseCall =>
             /\ handler' = handler
             /\ parked' = parked
             /\ LastCall.phase # "Core" =>
                   \E d \in DOMAIN handler :
                       /\ handler[d].id = LastCall.id
                       /\ handler[d][LastCall.phase]
      ]_vars

C19_Witness ==
    /\ parked # NoInvocation
    /\ pc = "done"
    /\ Len(handler) = 1
    /\ Len(parked.handler) = 1
    /\ handler[1].id = 1
    /\ parked.handler[1].id = MaxBuildLayers + 1
    /\ \E k \in DOMAIN trace : trace[k].phase = "After" /\ trace[k].id = 1

\* ------------------------------------------------------------------ C20
\* One invocation has made the calls of the other, as far as it has got.
SameSoFar(t, u) ==
    \A k \in DOMAIN t \cap DOMAIN u : t[k] = u[k]

\* C20: when the phases and the core are functions of their arguments, two
\* invocations of one chain with the same request, their phase calls
\* interleaved in any way, make the same phase calls in the same order and
\* return the same (value, error); one that runs alone is the reference.
C20_ConcurrentInvocations ==
    parked # NoInvocation =>
        /\ parked.handler = handler
        /\ SameSoFar(trace, parked.trace)
        /\ (pc = "done" /\ parked.pc = "done") =>
              /\ trace = parked.trace
              /\ <<response, err>> = <<parked.response, parked.err>>

C20_Witness ==
    /\ parked # NoInvocation
    /\ pc = "done"
    /\ parked.pc = "After"
    /\ Len(handler) = MaxConcLayers
    /\ Len(trace) > Len(parked.trace)
    /\ Len(parked.trace) > 1
    /\ err # Nil

\* ------------------------------------------------------------------ C21
Phases == {"Before", "After", "OnError"}

\* C21: in one invocation the innermost handler is called at most once, and
\* each of Before, After and OnError of each layer at most once: a phase that
\* returned an error is not called again.
C21_ExactlyOnce ==
    /\ Cardinality(CoreCalls) <= 1
    /\ Len(calls) <= 1
    /\ \A d \in Layers : \A phase \in Phases :
          Cardinality(Calls(phase, handler[d].id)) <= 1
    /\ \A k \in DOMAIN trace : \A j \in DOMAIN trace :
          (j > k /\ Failed(k)) =>
              ~(trace[j].id = trace[k].id /\ trace[j].phase = trace[k].phase)

C21_Witness ==
    /\ pc = "done"
    /\ Len(handler) = MaxLayers
    /\ \E k \in Calls("After", handler[1].id) : Failed(k)
    /\ \E k \in Calls("OnError", handler[1].id) : Failed(k)
    /\ Cardinality(Calls("Before", handler[1].id)) = 1
    /\ Cardinality(CoreCalls) = 1

\* ------------------------------------------------------------------ C22
\* C22: the context the caller invoked the chain with is the context every
\* Before, After and OnError that runs is called with, at every depth, and
\* the context the innermost handler and the application function receive.
C22_ContextPassThrough ==
    /\ \A k \in DOMAIN trace : trace[k].ctx = ctx
    /\ \A i \in DOMAIN calls : calls[i][1] = ctx

C22_Witness ==
    /\ pc = "done"
    /\ ctx # Ctx
    /\ Len(handler) = MaxConcLayers
    /\ \E k \in DOMAIN trace : trace[k].phase = "OnError" /\ trace[k].id = handler[Len(handler)].id
    /\ \E k \in DOMAIN trace : trace[k].phase = "After" /\ trace[k].id = handler[1].id
    /\ Len(calls) = 1

\* ------------------------------------------------------------------ C30
RECURSIVE Incoming(_)
\* The request layer d is called with, and the value it calls its inner
\* handler with, once its Before (when it has one) has returned.
Incoming(d) ==
    IF d = 1 THEN Request
    ELSE IF handler[d - 1].Before
         THEN trace[CHOOSE k \in Calls("Before", handler[d - 1].id) : TRUE].outV
         ELSE Incoming(d - 1)
\* Layer d has been entered: every Before outside it has returned a nil error.
Entered(d) ==
    \A o \in 1..(d - 1) :
        handler[o].Before => \E k \in Calls("Before", handler[o].id) : ~Failed(k)

\* C30: a layer's Before is called with the request the layer was called
\* with; the inner handler is called with the value Before returned, or with
\* that request when the layer has no Before; After is called with the value
\* the inner handler returned; and when nothing failed in the layer it returns
\* After's value, or the inner handler's when it has no After, with a nil error.
C30_ValueThreading ==
    pc \notin {"new", "built", "idle"} =>
        /\ \A d \in Layers : Entered(d) =>
              /\ \A k \in Calls("Before", handler[d].id) : In(k) = <<Incoming(d), Nil>>
              /\ \A k \in Calls("After", handler[d].id) :
                    /\ InnerHasReturned(d)
                    /\ In(k) = <<InnerPair(d)[1], Nil>>
              /\ (HasReturned(d) /\ Calls("OnError", handler[d].id) = {}
                    /\ returned[d][2] = Nil) =>
                    /\ InnerHasReturned(d)
                    /\ returned[d][1] =
                          IF handler[d].After
                          THEN trace[CHOOSE k \in Calls("After", handler[d].id) : TRUE].outV
                          ELSE InnerPair(d)[1]
        /\ \A k \in CoreCalls :
              /\ Entered(Len(handler) + 1)
              /\ trace[k].inV = Incoming(Len(handler) + 1)

C30_Witness ==
    /\ pc = "done"
    /\ Len(handler) = MaxLayers
    /\ handler[1].Before /\ ~handler[2].Before /\ handler[2].After /\ ~handler[1].After
    /\ NoFailure
    /\ response = ValueOf("After", handler[2].id)
    /\ \E k \in CoreCalls : trace[k].inV = IF handler[3].Before
                                          THEN ValueOf("Before", handler[3].id)
                                          ELSE ValueOf("Before", handler[1].id)

\* ------------------------------------------------------------------ C23
\* The calls of phase `phase` of an interceptor of kind `kind`.
CallsOfKind(phase, kind) ==
    {k \in DOMAIN trace :
        /\ trace[k].phase = phase
        /\ \E d \in Layers : handler[d].id = trace[k].id /\ handler[d].kind = kind}
IsResponse(v) == v.type = "APIGatewayProxyResponse"

\* C23: whenever OnError of CreateAPIGatewayProxyResponse is called with
\* (payload, err), whatever the payload, also one that cannot be converted, it
\* returns a nil error and an APIGatewayProxyResponse whose Body is err's message.
C23_EveryErrorFormatted ==
    \A k \in CallsOfKind("OnError", "CreateAPIGatewayProxyResponse") :
        /\ trace[k].outE = Nil
        /\ IsResponse(trace[k].outV)
        /\ trace[k].outV.Body = trace[k].inE

\* ------------------------------------------------------------------ C24
\* The response ConvertToAPIGatewayResponse makes of the payload call k was
\* given, when it makes one.
Converts(k) == ConvertToAPIGatewayResponse(trace[k].inV, input)[2] = Nil
Converted(k) == ConvertToAPIGatewayResponse(trace[k].inV, input)[1]
\* The interceptor whose phase call k is.
Interceptor(k) == handler[CHOOSE d \in Layers : handler[d].id = trace[k].id]
DefaultApplies(k) ==
    Converted(k).StatusCode = 0 /\ ~Interceptor(k).defaultStatusCode.isNil

ConvertCalls ==
    CallsOfKind("After", "CreateAPIGatewayProxyResponse")
        \cup CallsOfKind("OnError", "CreateAPIGatewayProxyResponse")
Encodable(v) == v.type # "chan"
\* The body the claim gives a converted value: its JSON encoding, or the bytes
\* of a byte slice as they are.
EncodingOrRawBytes(v) ==
    IF v.type = "[]byte" THEN Join(v.bytes) ELSE Text(Marshal(v, input)[1], "\"", "")
\* The same, the bytes <, > and & of a byte slice written as JSON escapes.
Escaped(b) ==
    [i \in DOMAIN b |->
        IF b[i] = "<" THEN "\\u003c"
        ELSE IF b[i] = ">" THEN "\\u003e"
        ELSE IF b[i] = "&" THEN "\\u0026" ELSE b[i]]
EncodingOrEscapedBytes(v) ==
    IF v.type = "[]byte" THEN Join(Escaped(v.bytes)) ELSE Text(Marshal(v, input)[1], "\"", "")
ConvertsAs(Body(_)) ==
    \A k \in ConvertCalls :
        LET v == trace[k].inV
            c == ConvertToAPIGatewayResponse(v, input)
        IN /\ IsResponse(v) => c = <<v, Nil>>
           /\ c[2] = Nil => ConvertToAPIGatewayResponse(c[1], input) = c
           /\ (~IsResponse(v) /\ Encodable(v)) =>
                 c = <<APIGatewayProxyResponse(0, Body(v), <<>>), Nil>>
           /\ ~Encodable(v) => c[2] # Nil

\* C29 as stated: ConvertToAPIGatewayResponse returns a response as is, with
\* a nil error, so that converting twice is converting once; any other value
\* gives a new response with zero StatusCode, no headers and the value's JSON
\* encoding as Body, the raw bytes when the value is a byte slice, or an
\* error when the value cannot be encoded.
C29_RawBytes == ConvertsAs(EncodingOrRawBytes)

\* C29, amended: ConvertToAPIGatewayResponse returns a response as is, with
\* a nil error, so that converting twice is converting once; any other value
\* gives a new response with zero StatusCode and no headers whose Body is the
\* value's JSON encoding or, for a byte slice, its bytes with <, > and &
\* replaced by their JSON escapes; a value that cannot be encoded gives an error.
C29_EscapedBytes == ConvertsAs(EncodingOrEscapedBytes)

C29_Witness ==
    /\ pc = "done"
    /\ \E k \in CallsOfKind("After", "CreateAPIGatewayProxyResponse") :
          /\ Interceptor(k).defaultStatusCode.isNil
          /\ trace[k].inV = Bytes(<<"<", "b", ">", "&">>)
          /\ trace[k].outV.Body = "\\u003cb\\u003e\\u0026"
          /\ response = trace[k].outV

\* ------------------------------------------------------------------ C25
AddHeadersCalls ==
    CallsOfKind("After", "AddHeaders") \cup CallsOfKind("After", "AddSecurityHeaders")

\* C25: when the payload converts, After of AddHeaders returns a nil error and
\* an APIGatewayProxyResponse with the Body and StatusCode of the converted
\* payload, whose Headers hold every configured key with its configured value
\* and every other key of the converted response with the value it had.
C25_AddHeaders ==
    \A k \in AddHeadersCalls : Converts(k) =>
        LET configured == Interceptor(k).headers
            out == trace[k].outV
        IN /\ trace[k].outE = Nil
           /\ IsResponse(out)
           /\ out.Body = Converted(k).Body
           /\ out.StatusCode = Converted(k).StatusCode
           /\ DOMAIN out.Headers = DOMAIN configured \cup DOMAIN Converted(k).Headers
           /\ \A key \in DOMAIN configured : out.Headers[key] = configured[key]
           /\ \A key \in DOMAIN Converted(k).Headers \ DOMAIN configured :
                 out.Headers[key] = Converted(k).Headers[key]

C25_Witness ==
    /\ pc = "done"
    /\ \E k \in CallsOfKind("After", "AddHeaders") :
          /\ Interceptor(k).headers = TestHeaders
          /\ trace[k].inV = APIGatewayProxyResponse(StatusUnprocessableEntity, "made", UnitHeaders)
          /\ trace[k].outV.Headers["Server"] = "gointercept"
          /\ trace[k].outV.Headers["Content-Type"] = "application/json"
          /\ response = trace[k].outV

\* ------------------------------------------------------------------ C26
\* The option of name `name` that comes last in the list, when there is one.
Given(options, name) == \E i \in DOMAIN options : options[i].option = name
Last(options, name) ==
    options[CHOOSE i \in DOMAIN options :
                /\ options[i].option = name
                /\ \A j \in DOMAIN options : options[j].option = name => j <= i]
SecurityHeaderNames ==
    {"X-DNS-Prefetch-Control", "X-Frame-Options", "X-Powered-By", "Referrer-Policy",
     "Strict-Transport-Security", "X-Download-Options", "X-Content-Type-Options"}
\* The headers the claim gives a list of options.
SecurityHeadersFor(options, headers) ==
    LET set(name) == Given(options, name)
        opt(name) == Last(options, name)
    IN /\ DOMAIN headers \subseteq SecurityHeaderNames
       /\ headers["X-DNS-Prefetch-Control"] =
             IF set("DnsPrefetchControl") /\ ~opt("DnsPrefetchControl").activate
             THEN "off" ELSE "on"
       /\ headers["X-Frame-Options"] =
             IF set("FrameGuard") THEN opt("FrameGuard").action ELSE "DENY"
       /\ headers["X-Powered-By"] =
             IF set("HidePoweredBy") THEN opt("HidePoweredBy").with ELSE ""
       /\ headers["Referrer-Policy"] =
             IF set("ReferrerPolicy") THEN opt("ReferrerPolicy").policy ELSE "no-referrer"
       /\ headers["Strict-Transport-Security"] =
             IF set("HttpStrictTransportSecurity")
             THEN LET hsts == opt("HttpStrictTransportSecurity")
                  IN ToString(hsts.maxAge)
                         \o (IF hsts.includeSubDomains THEN "; includeSubDomains" ELSE "")
                         \o (IF hsts.preLoad THEN "; preLoad" ELSE "")
             ELSE "15552000; includeSubDomains; preLoad"
       /\ "X-Download-Options" \in DOMAIN headers
             <=> (set("IENoOpen") => opt("IENoOpen").activate)
       /\ "X-Download-Options" \in DOMAIN headers => headers["X-Download-Options"] = "noopen"
       /\ "X-Content-Type-Options" \in DOMAIN headers
             <=> (set("NoSniff") => opt("NoSniff").activate)
       /\ "X-Content-Type-Options" \in DOMAIN headers =>
             headers["X-Content-Type-Options"] = "nosniff"

\* C26: the headers AddSecurityHeaders(options...) adds are those of the
\* defaults with the options applied in order, a later option for a field
\* replacing an earlier one: X-DNS-Prefetch-Control on or off, X-Frame-Options
\* the action (DENY), X-Powered-By the string, Referrer-Policy the policy
\* (no-referrer), Strict-Transport-Security the max-age followed by
\* "; includeSubDomains" and "; preLoad" when enabled (all three by default),
\* X-Download-Options and X-Content-Type-Options exactly when IENoOpen and
\* NoSniff are active; and a converted payload without headers is returned
\* with exactly these.
C26_SecurityHeaders ==
    /\ \A d \in Layers : handler[d].kind = "AddSecurityHeaders" =>
          SecurityHeadersFor(handler[d].options, handler[d].headers)
    /\ \A k \in CallsOfKind("After", "AddSecurityHeaders") :
          (Converts(k) /\ DOMAIN Converted(k).Headers = {}) =>
              SecurityHeadersFor(Interceptor(k).options, trace[k].outV.Headers)

C26_Witness ==
    /\ pc = "done"
    /\ \E k \in CallsOfKind("After", "AddSecurityHeaders") :
          /\ Interceptor(k).options = <<DnsPrefetchControl(TRUE), DnsPrefetchControl(FALSE)>>
          /\ trace[k].inV = Output("done", "text")
          /\ response = trace[k].outV
    /\ response.Headers["X-DNS-Prefetch-Control"] = "off"
    /\ response.Headers["Strict-Transport-Security"] = "15552000; includeSubDomains; preLoad"
    /\ response.Headers["X-Download-Options"] = "noopen"

\* ------------------------------------------------------------------ C28
\* The key is in the form NormalizeHTTPRequestHeaders(canonical) gives keys.
IsNormalized(key, canonical) ==
    IF canonical THEN normalizeKey(key, TRUE) = key
    ELSE \A i \in DOMAIN key : \A u \in DOMAIN Uppers : key[i] # Uppers[u]
\* Every key of the map `out` is normalized and has the value of a key of
\* `in` it is the normalized form of.
NormalizedFrom(in, out, canonical) ==
    \A key \in DOMAIN out :
        /\ IsNormalized(key, canonical)
        /\ \E from \in DOMAIN in :
              normalizeKey(from, canonical) = key /\ out[key] = in[from]

\* C28: Before of NormalizeHTTPRequestHeaders never returns an error; given
\* an APIGatewayProxyRequest it passes inward a request in which every key of
\* Headers and of MultiValueHeaders is in normalized form (lower case, or
\* canonical when canonical is set) with the value of the key it was made
\* from; any other payload is passed inward unchanged.
C28_HeadersNormalized ==
    \A k \in CallsOfKind("Before", "NormalizeHTTPRequestHeaders") :
        /\ trace[k].outE = Nil
        /\ IF trace[k].inV.type = "APIGatewayProxyRequest"
           THEN /\ trace[k].outV.type = "APIGatewayProxyRequest"
                /\ NormalizedFrom(trace[k].inV.Headers, trace[k].outV.Headers,
                                  Interceptor(k).canonical)
                /\ NormalizedFrom(trace[k].inV.MultiValueHeaders,
                                  trace[k].outV.MultiValueHeaders, Interceptor(k).canonical)
           ELSE trace[k].outV = trace[k].inV

\* ------------------------------------------------------------------ C27
\* The chain of the schema tests: CreateAPIGatewayProxyResponse with the
\* codes 200 and 400, ValidateBodyJSONSchema(schema), ParseInput.
SchemaChain ==
    /\ Len(handler) = 3
    /\ handler[1] = CreateAPIGatewayProxyResponse(1, DefaultStatusCodes(StatusOK, StatusBadRequest))
    /\ handler[2] = ValidateBodyJSONSchema(2, schema)
    /\ handler[3].kind = "ParseInput"
\* The message of the first validation error, when the body violates the schema.
Violates(body) == ValidateBytes(schema, body)[1] # <<>>
FirstValidationError(body) == ValidateBytes(schema, body)[1][1]

\* C27: in the chain of the schema tests a body that violates the schema
\* reaches neither Before of ParseInput nor the core handler and the caller
\* gets a nil error and a response with the first validation error's message
\* as Body and StatusCode 422; a body that satisfies the schema gives
\* StatusCode 200 and the handler's output as Body.
C27_SchemaValidationChain ==
    (SchemaChain /\ pc = "done") =>
        LET body == trace[1].inV.Body
        IN IF Violates(body)
           THEN /\ ~Ran("Before", 3)
                /\ CoreCalls = {}
                /\ err = Nil
                /\ IsResponse(response)
                /\ response.Body = FirstValidationError(body)
                /\ response.StatusCode = StatusUnprocessableEntity
           ELSE \A k \in CoreCalls : ~Failed(k) =>
                /\ err = Nil
                /\ IsResponse(response)
                /\ response.StatusCode = StatusOK
                /\ response.Body = Text(Marshal(trace[k].outV, input)[1], "\"", "")

\* ------------------------------------------------------------------ C31
\* C31: in every invocation the After of a layer is called only once the
\* layer's Before, when it has one, and its inner handler have both returned
\* a nil error; and once the OnError of a layer has been called no phase of
\* that layer is called any more: a layer whose OnError has returned a nil
\* error does not go on to its own After, the layers around it do.
C31_PhaseInvariant ==
    pc \notin {"new", "built", "idle"} =>
        /\ \A k \in DOMAIN trace : trace[k].phase = "After" =>
              LET d == DepthOf(trace[k].id)
              IN /\ handler[d].Before =>
                       \E b \in Calls("Before", trace[k].id) : b < k /\ ~Failed(b)
                 /\ InnerHasReturned(d)
                 /\ InnerPair(d)[2] = Nil
        /\ \A k \in DOMAIN trace : trace[k].phase = "OnError" =>
              /\ \A j \in DOMAIN trace : j > k => trace[j].id # trace[k].id
              /\ pc \in {"Before", "After", "OnError"} => handler[depth].id # trace[k].id
              /\ (~Failed(k) /\ DepthOf(trace[k].id) > 1
                    /\ handler[DepthOf(trace[k].id) - 1].After) =>
                    \/ Ran("After", handler[DepthOf(trace[k].id) - 1].id)
                    \/ pc = "After" /\ depth = DepthOf(trace[k].id) - 1

C31_Witness ==
    /\ pc = "done"
    /\ Len(handler) = MaxLayers
    /\ handler[2].Before /\ handler[2].After /\ handler[1].After
    /\ \E k \in Calls("OnError", 2) : ~Failed(k) /\ trace[k].inE \in AppErrors
    /\ ~Ran("After", 2)
    /\ Ran("After", 1)

\* ------------------------------------------------------------------ C33
\* The layers that took the error of the innermost handler without ending it:
\* those inside the first layer whose OnError returned a nil error.
Absorbed(d) == \E k \in Calls("OnError", handler[d].id) : ~Failed(k)

\* C33: a chain around an invalid application function runs as one around a
\* core that always fails. The Before phases run from the outermost layer
\* inwards; the innermost handler then returns the validation error without
\* calling the function; the error is handed to each layer's OnError from the
\* innermost outwards, or passed on by a layer without one, until an OnError
\* returns a nil error; no After of that layer or of a layer inside it is
\* called; and once an OnError has returned a nil error the caller does not
\* get the validation error.
C33_InvalidHandlerInChain ==
    (core.kind = "errorHandler" /\ pc \notin {"new", "built", "idle"}) =>
        /\ calls = <<>>
        /\ \A k \in DOMAIN trace : \A j \in DOMAIN trace :
              (trace[k].phase = "Before" /\ trace[j].phase = "Before" /\ k < j) =>
                  DepthOf(trace[k].id) < DepthOf(trace[j].id)
        /\ \A k \in CoreCalls :
              /\ ~trace[k].called
              /\ Out(k) = <<Nil, core.e>>
              /\ \A d \in Layers : handler[d].Before =>
                    \E b \in Calls("Before", handler[d].id) : b < k /\ ~Failed(b)
        /\ \A d \in Layers : (InnerHasReturned(d) /\ InnerPair(d)[2] # Nil) =>
              /\ ~Ran("After", handler[d].id)
              /\ IF handler[d].OnError
                 THEN \/ pc = "OnError" /\ depth = d /\ <<response, err>> = InnerPair(d)
                      \/ \E k \in Calls("OnError", handler[d].id) : In(k) = InnerPair(d)
                 ELSE returned[d] = InnerPair(d)
        /\ CoreRan =>
              /\ \A d \in Layers : Ran("After", handler[d].id) =>
                    \E a \in Layers : a > d /\ Absorbed(a)
              /\ \A d \in Layers : (\A a \in Layers : a >= d => ~Absorbed(a)) =>
                    (HasReturned(d) => returned[d][2] # Nil)
              /\ (pc = "done" /\ \E a \in Layers : Absorbed(a)) => err # core.e
              /\ (pc = "done" /\ ~Failed(Len(trace))) => err = Nil

C33_Witness ==
    /\ pc = "done"
    /\ core = errorHandler(TooManyArguments)
    /\ Len(handler) = MaxConcLayers
    /\ \A d \in Layers : handler[d].Before /\ handler[d].After /\ handler[d].OnError
    /\ \E k \in Calls("OnError", handler[Len(handler)].id) :
          Failed(k) /\ trace[k].inE = TooManyArguments
    /\ Absorbed(Len(handler) - 1)
    /\ err = Nil

\* ------------------------------------------------------------------ C32
\* The ParseInput layers of the chain.
ParseInputs == {d \in Layers : handler[d].kind = "ParseInput"}

\* C32: in a chain with one ParseInput, the value an invocation passes inward
\* after a successful parse is what its own request body decodes to, from
\* nothing else: a field the body does not set has its zero value, whatever
\* an earlier invocation decoded.
C32_ParseIsolation ==
    (pc \in {"Before", "Core", "After", "OnError", "done"} /\ Cardinality(ParseInputs) = 1) =>
        LET d == CHOOSE d \in ParseInputs : TRUE
        IN \A k \in Calls("Before", handler[d].id) : ~Failed(k) =>
              /\ trace[k].outV = InputPtr(handler[d].id)
              /\ input[handler[d].id] =
                    Decode(ZeroInput, RequestBody, handler[d].allowUnknownFields)[1]

\* ------------------------------------------------------------------ C34
\* The chain has one CreateAPIGatewayProxyResponse and one AddHeaders; their depths.
KindAt(kind) == {d \in Layers : handler[d].kind = kind}
HeadersAndResponse ==
    /\ Cardinality(KindAt("CreateAPIGatewayProxyResponse")) = 1
    /\ Cardinality(KindAt("AddHeaders")) = 1
ResponseAt == CHOOSE d \in KindAt("CreateAPIGatewayProxyResponse") : TRUE
HeadersAt == CHOOSE d \in KindAt("AddHeaders") : TRUE
\* A phase of a layer inside both, or the core, returned an error.
InnerError ==
    \E k \in DOMAIN trace :
        /\ Failed(k)
        /\ trace[k].phase = "Core"
              \/ (DepthOf(trace[k].id) > ResponseAt /\ DepthOf(trace[k].id) > HeadersAt)
Carries(headers) ==
    \A key \in DOMAIN headers :
        key \in DOMAIN response.Headers /\ response.Headers[key] = headers[key]

\* C34: the response made of an inner error carries the headers of AddHeaders
\* when AddHeaders is listed before CreateAPIGatewayProxyResponse and none of
\* them when it is listed after it; the response of an invocation without
\* error carries them in either order.
C34_HeadersByPosition ==
    (pc = "done" /\ HeadersAndResponse /\ trace # <<>>) =>
        IF InnerError
        THEN /\ err = Nil
             /\ IsResponse(response)
             /\ IF HeadersAt < ResponseAt
                THEN Carries(handler[HeadersAt].headers)
                ELSE DOMAIN response.Headers \cap DOMAIN handler[HeadersAt].headers = {}
        ELSE NoFailure =>
                /\ err = Nil
                /\ IsResponse(response)
                /\ Carries(handler[HeadersAt].headers)

C34_Witness ==
    /\ pc = "done"
    /\ Len(handler) = 3
    /\ HeadersAndResponse
    /\ HeadersAt = 2 /\ ResponseAt = 1
    /\ \E k \in CoreCalls : trace[k].outE = "Value is not even"
    /\ IsResponse(response)
    /\ DOMAIN response.Headers = {}

\* ------------------------------------------------------------------ C35
\* The calls of ValidateBodyJSONSchema's OnError, and where the error of call k
\* was raised: by the interceptor's own Before, or inside it.
SchemaOnErrors == CallsOfKind("OnError", "ValidateBodyJSONSchema")
RaisedByOwnBefore(k) == \E b \in Calls("Before", trace[k].id) : Failed(b)
RaisedInside(k) ==
    \E f \in DOMAIN trace :
        /\ Failed(f)
        /\ f < k
        /\ trace[f].phase = "Core" \/ DepthOf(trace[f].id) > DepthOf(trace[k].id)

\* C35: ValidateBodyJSONSchema's OnError returns, for every error that reaches
\* it, the payload it was given and a non-nil HTTPError of status 422 with the
\* message of that error, and its layer returns that error to the enclosing
\* one, which runs its OnError and not its After.
C35_SchemaOnErrorNeverAbsorbs ==
    \A k \in SchemaOnErrors :
        /\ trace[k].inE # Nil
        /\ trace[k].outV = trace[k].inV
        /\ trace[k].outE # Nil
        /\ trace[k].httpError = <<StatusUnprocessableEntity, trace[k].inE>>
        /\ trace[k].outE = trace[k].inE
        /\ depth < DepthOf(trace[k].id) =>
              returned[DepthOf(trace[k].id)] = <<trace[k].inV, trace[k].inE>>
        /\ (DepthOf(trace[k].id) > 1 /\ depth < DepthOf(trace[k].id)) =>
              LET o == handler[DepthOf(trace[k].id) - 1]
              IN /\ ~Ran("After", o.id)
                 /\ (o.OnError /\ depth < DepthOf(o.id)) =>
                        \E f \in Calls("OnError", o.id) : In(f) = <<trace[k].inV, trace[k].inE>>

C35_Witness ==
    /\ pc = "done"
    /\ Len(handler) = 3
    /\ handler[1].kind = "CreateAPIGatewayProxyResponse"
    /\ handler[2].kind = "ValidateBodyJSONSchema"
    /\ handler[3].kind = "ParseInput"
    /\ \E k \in SchemaOnErrors : RaisedInside(k) /\ ~RaisedByOwnBefore(k)
    /\ Ran("OnError", handler[1].id)

\* ------------------------------------------------------------------ C36
\* An invocation is under way: a phase or the function has been called.
Running == pc \in {"Before", "Core", "After", "OnError"}

\* C36: every invocation ends with one (value, error) pair returned to the
\* caller, whichever phases fail: an invocation under way reaches the return to
\* the caller, a layer returns once, and what the caller gets is the pair the
\* outermost layer returned.
C36_Termination ==
    /\ Running ~> (pc = "done")
    /\ [][\A d \in DOMAIN returned :
            (returned[d] # NoReturn /\ pc # "done") => returned'[d] = returned[d]]_vars
    /\ [](pc = "done" =>
            /\ Len(handler) > 0 => HasReturned(1)
            /\ <<response, err>> = (IF Len(handler) = 0 THEN CoreOut ELSE returned[1]))

C36_Witness ==
    /\ pc = "done"
    /\ Len(handler) = MaxConcLayers
    /\ \A d \in Layers : handler[d].Before /\ handler[d].After /\ handler[d].OnError
    /\ \E k \in Calls("After", 1) : Failed(k)
    /\ \E k \in Calls("OnError", 1) : Failed(k)
    /\ err # Nil

\* ------------------------------------------------------------------ C37
\* The layers whose interceptor has none of Before, After and OnError.
Transparent == {d \in Layers : ~handler[d].Before /\ ~handler[d].After /\ ~handler[d].OnError}
\* The calls of Before phases and of the core: the calls that are given a request.
RequestCalls == {k \in DOMAIN trace : trace[k].phase \in {"Before", "Core"}}

\* C37: the handler With makes of an empty list is the adapted core: invoking
\* it calls the core with the request and nothing else, and returns what the
\* core returns. A layer with none of Before, After and OnError calls nothing,
\* hands the request on as it is and returns what its inner handler returns.
C37_EmptyAndTransparent ==
    /\ (pc = "done" /\ Len(handler) = 0) =>
          /\ Len(trace) = 1
          /\ trace[1].phase = "Core"
          /\ trace[1].inV = Request
          /\ <<response, err>> = CoreOut
    /\ pc \in {"Before", "Core", "After", "OnError", "done"} =>
          /\ \A d \in Transparent :
                /\ \A k \in DOMAIN trace : trace[k].id # handler[d].id
                /\ pc \in {"Before", "After", "OnError"} => depth # d
                /\ HasReturned(d) => returned[d] = InnerPair(d)
          /\ \A k \in RequestCalls :
                trace[k].inV = (IF k = 1 THEN Request ELSE trace[k - 1].outV)

C37_Witness ==
    /\ pc = "done"
    /\ Len(handler) = MaxLayers
    /\ Transparent = {2}
    /\ handler[1].After /\ handler[3].Before /\ handler[3].After
    /\ CoreRan
    /\ NoFailure
    /\ returned[2] = returned[3]

====
